---- MODULE Spec2Model ----
(***************************************************************************)
(* Model of the funding-rate alert engine (FundingRateMonitor in           *)
(* funding_monitor.py) and of the poll cycle that drives it                *)
(* (AlertMonitor._check_funding in alert_monitor.py, the same code as      *)
(* FundingRateBot.check_funding_settlements in funding_rate_bot.py).       *)
(*                                                                         *)
(* Funding rates are floats in the source.  The model counts them in units *)
(* of 0.0005, so PREDICTED_RATE_THRESHOLD = 0.001 is 2 units.  On the      *)
(* rates used here (multiples of 0.0005 up to 0.004 in magnitude) the      *)
(* IEEE-754 results of abs(c - p) / abs(p) >= 0.5 and of the comparisons   *)
(* with 0 and with the threshold agree with exact arithmetic.              *)
(*                                                                         *)
(* Settlement timestamps are epoch milliseconds in the source; the model   *)
(* uses 1..MaxTs.  Clock readings (datetime.now truncated to the hour) are *)
(* hour numbers 0..MaxHour; the clock never runs backwards.                *)
(*                                                                         *)
(* An alert record keeps the fields the detection logic decides (symbol,   *)
(* fundingRate, prevFundingRate, rateChange, alertType) and the settlement *)
(* timestamp in place of its display string; the display-only fields       *)
(* copied from the ticker (lastPrice, volume24h, intervals) are left out.  *)
(***************************************************************************)
EXTENDS Integers, Sequences, FiniteSets, TLC

(***************************************************************************)
(* Bounds of the model.                                                    *)
(***************************************************************************)
\* largest settlement timestamp the snapshot source reports
MaxTs == 3
\* last clock hour of a run
MaxHour == 1
\* config.MAX_ALERTS_PER_HOUR, a configuration value (200 in config.py:101),
\* scaled down so that the cap is reached
MAX_ALERTS_PER_HOUR == 1

(***************************************************************************)
(* Program constants and input domains.                                    *)
(***************************************************************************)
\* config.py:82, 0.001 in units of 0.0005
PREDICTED_RATE_THRESHOLD == 2

ALERT_ON_SIGN_CHANGE == TRUE

ALERT_ON_PREDICTED_RATES == TRUE

FULL_ALERT_SYMBOLS == {"BTCUSDT"}

Symbols == {"BTCUSDT", "ETHUSDT"}

\* settled rates a snapshot may carry: negative, zero, positive
SettledRates == {-1, 0, 2}

\* predicted rates a ticker may carry: one below the threshold and extreme
\* ones of both signs (2 -> 3 is a 50% move, 3 -> 2 a 33% move)
PredictedRates == {-3, 1, 2, 3}

Timestamps == 1..MaxTs

Hours == 0..MaxHour

(***************************************************************************)
(* Python dicts: functions whose domain is the set of keys present.        *)
(***************************************************************************)
EmptyDict == [k \in {} |-> 0]

Get(d, k, default) == IF k \in DOMAIN d THEN d[k] ELSE default

Put(d, k, v) == [x \in (DOMAIN d) \cup {k} |-> IF x = k THEN v ELSE d[x]]

Del(d, k) == [x \in (DOMAIN d) \ {k} |-> d[x]]

Abs(x) == IF x < 0 THEN -x ELSE x

\* A dict iterates in insertion order.  The settlements snapshot is built in
\* the order of the driver's symbol list, which the model fixes; the ticker
\* snapshot is built in the order of the exchange's response, which is any.
SymbolOrder == <<"BTCUSDT", "ETHUSDT">>

\* the symbols of S in the order of SymbolOrder
RECURSIVE InOrder(_, _)
InOrder(S, i) ==
    IF i > Len(SymbolOrder) THEN <<>>
    ELSE IF SymbolOrder[i] \in S THEN <<SymbolOrder[i]>> \o InOrder(S, i + 1)
    ELSE InOrder(S, i + 1)

\* the orders a dict with the keys S may iterate in
Orderings(S) ==
    {o \in [1..Cardinality(S) -> S] : \A i, j \in 1..Cardinality(S) : o[i] = o[j] => i = j}

\* settlements: Dict[str, Dict], each entry {fundingRate, fundingRateTimestamp}
SettlementSnapshots ==
    UNION {{[i \in 1..Cardinality(S) |->
                [symbol |-> InOrder(S, 1)[i],
                 fundingRate |-> r[InOrder(S, 1)[i]],
                 fundingRateTimestamp |-> t[InOrder(S, 1)[i]]]]
            : r \in [S -> SettledRates], t \in [S -> Timestamps]}
           : S \in SUBSET Symbols}

\* ticker_data: Dict[str, Dict], each entry {fundingRate, ...}
TickersOver(rates) ==
    UNION {{[i \in 1..Cardinality(S) |-> [symbol |-> o[i], fundingRate |-> r[o[i]]]]
            : r \in [S -> rates], o \in Orderings(S)}
           : S \in SUBSET Symbols}

TickerSnapshots == TickersOver(PredictedRates)

(***************************************************************************)
(* State.                                                                  *)
(***************************************************************************)
VARIABLES
    last_settlement_timestamps,  \* self.last_settlement_timestamps
    previous_settlement_rates,   \* self.previous_settlement_rates
    alerted_predicted_rates,     \* self.alerted_predicted_rates
    alert_count_this_hour,       \* self.alert_count_this_hour
    hour_start,                  \* self.hour_start
    now,                         \* the clock hour, datetime.now truncated
    call,                        \* the call just made: its name and what it was given
    alerts,                      \* list returned by check_settlements in that call
    predicted_alerts,            \* list returned by check_predicted_rates in that call
    denied,                      \* symbols whose alert the rate limiter withheld in that call
    store,                       \* the state file: <<>> when missing, else <<contents>>
    settled_alerted,             \* history: <<symbol, timestamp>> of every settlement alert returned
    sent_this_hour,              \* history: alerts this instance returned during clock hour now
    sent_before_advance,         \* history: when the hour advanced during that call, the
                                 \* alerts returned in the hour that ended; else 0
    symbols,                     \* the driver's self.symbols, as a set
    dispatched,                  \* the send loop of that poll cycle: for every alert handed
                                 \* to send_funding_alert, in order, the alert and the result
    running,                     \* the driver's self.running
    pc,                          \* where the driver stands: "__init__", "exited" (sys.exit),
                                 \* "while" (the loop test), "try" (start of the loop body),
                                 \* "fetch" (_check_funding entered), "send" (its send
                                 \* loop), "sleep", "done" (run has returned)
    time_since_refresh,          \* whole periods of SYMBOL_REFRESH_INTERVAL seconds elapsed
                                 \* since self.last_symbol_refresh
    handler,                     \* the CommandHandler and its start coroutine: self.running,
                                 \* where start stands ("__init__", "start", "while", "try",
                                 \* "done", "exited"), its local last_update_id, and for the
                                 \* history the update_id of every update given to
                                 \* handle_update, in order (handled), of every update a
                                 \* result carried (seen), of those a result carried more
                                 \* than once (refetched) and of those whose handling
                                 \* raised (raised)
    signals,                     \* the process's SIGINT/SIGTERM disposition (installed), the
                                 \* number of shutdown signals delivered, and whether both
                                 \* objects had registered when one was delivered
    updates                      \* Telegram's side of getUpdates: the update_id of the
                                 \* latest update it holds, ids running from 1

vars == <<last_settlement_timestamps, previous_settlement_rates, alerted_predicted_rates,
          alert_count_this_hour, hour_start, now, call, alerts, predicted_alerts, denied, store,
          settled_alerted, sent_this_hour, sent_before_advance, symbols, dispatched,
          running, pc, time_since_refresh, handler, signals, updates>>

\* no CommandHandler constructed
NoHandler ==
    [running |-> FALSE, pc |-> "__init__", last_update_id |-> 0, handled |-> <<>>,
     seen |-> {}, raised |-> {}, refetched |-> {}]

\* the dispositions signal.signal leaves
Installed(name) == [installed |-> name, delivered |-> 0, both |-> FALSE]

\* a step that is not one of the CommandHandler, of a signal or of Telegram
HandlerIdle == UNCHANGED <<handler, signals, updates>>

\* the driver constructed and about to test its loop condition
LoopStarted ==
    /\ running = TRUE
    /\ pc = "while"
    /\ time_since_refresh = 0
    /\ handler = NoHandler
    /\ signals = Installed("AlertMonitor._shutdown")
    /\ updates = 0

\* a step that is not one of the driver's loop
LoopIdle == UNCHANGED <<running, pc, time_since_refresh, handler, signals, updates>>

\* the engine object
Self ==
    [last_settlement_timestamps |-> last_settlement_timestamps,
     previous_settlement_rates |-> previous_settlement_rates,
     alerted_predicted_rates |-> alerted_predicted_rates,
     alert_count_this_hour |-> alert_count_this_hour,
     hour_start |-> hour_start]

(***************************************************************************)
(* Rate limiter.                                                           *)
(***************************************************************************)
\* variant of _can_send_alert: the cap compared with <=
Mut_can_send_alert_inclusive(self, current_hour) ==
    [self |-> IF current_hour > self.hour_start
              THEN [self EXCEPT !.alert_count_this_hour = 0, !.hour_start = current_hour]
              ELSE self,
     ok |-> (IF current_hour > self.hour_start THEN 0 ELSE self.alert_count_this_hour)
                <= MAX_ALERTS_PER_HOUR]

\* variant of _reset_hourly_count_if_needed: the window moves, the count stays
Mut_reset_hourly_count_if_needed_keeps_count(self, current_hour) ==
    IF current_hour > self.hour_start
    THEN [self EXCEPT !.hour_start = current_hour]
    ELSE self

\* current_hour is the clock reading taken at line 65
_reset_hourly_count_if_needed(self, current_hour) ==
    IF current_hour > self.hour_start
    THEN [self EXCEPT !.alert_count_this_hour = 0, !.hour_start = current_hour]
    ELSE self

\* the engine after the reset, and the answer
_can_send_alert(self, current_hour) ==
    LET s == _reset_hourly_count_if_needed(self, current_hour)
    IN  [self |-> s, ok |-> s.alert_count_this_hour < MAX_ALERTS_PER_HOUR]

(***************************************************************************)
(* Settlement detection.                                                   *)
(***************************************************************************)
\* variant of SettlementAlertType: a zero rate taken as the opposite sign
MutSettlementAlertTypeZeroFlips(prev_rate, current_rate) ==
    IF prev_rate >= 0 /\ current_rate < 0 THEN <<"sign_change">>
    ELSE IF prev_rate <= 0 /\ current_rate > 0 THEN <<"sign_change">>
    ELSE <<>>

\* the test of lines 183-189: "sign_change" or no alert type
SettlementAlertType(prev_rate, current_rate) ==
    IF ALERT_ON_SIGN_CHANGE /\ prev_rate > 0 /\ current_rate < 0 THEN <<"sign_change">>
    ELSE IF ALERT_ON_SIGN_CHANGE /\ prev_rate < 0 /\ current_rate > 0 THEN <<"sign_change">>
    ELSE <<>>

\* variant of _create_settlement_alert: no FULL_ALERT_SYMBOLS test
Mut_create_settlement_alert_any_symbol(symbol, current_rate, prev_rate, settlement_timestamp) ==
    IF SettlementAlertType(prev_rate, current_rate) = <<>> THEN <<>>
    ELSE <<[symbol |-> symbol,
            fundingRate |-> current_rate,
            prevFundingRate |-> prev_rate,
            rateChange |-> current_rate - prev_rate,
            alertType |-> SettlementAlertType(prev_rate, current_rate)[1],
            settlementTime |-> settlement_timestamp]>>

\* Optional[Dict]: <<>> is None, <<alert>> an alert
_create_settlement_alert(symbol, current_rate, prev_rate, settlement_timestamp) ==
    IF symbol \notin FULL_ALERT_SYMBOLS THEN <<>>
    ELSE IF SettlementAlertType(prev_rate, current_rate) = <<>> THEN <<>>
    ELSE <<[symbol |-> symbol,
            fundingRate |-> current_rate,
            prevFundingRate |-> prev_rate,
            rateChange |-> current_rate - prev_rate,
            alertType |-> SettlementAlertType(prev_rate, current_rate)[1],
            settlementTime |-> settlement_timestamp]>>

\* variant of IsNewSettlement: the stored timestamp itself counts as new
MutIsNewSettlementOrSame(current_timestamp, prev_timestamp) ==
    current_timestamp >= prev_timestamp

\* variant of IsNewSettlement: any changed timestamp counts as new
MutIsNewSettlementChanged(current_timestamp, prev_timestamp) ==
    current_timestamp # prev_timestamp

\* line 123: is this a new settlement
IsNewSettlement(current_timestamp, prev_timestamp) == current_timestamp > prev_timestamp

\* variant of UpdateTracking: the rate is not stored
MutUpdateTrackingTimestampOnly(self, symbol, current_timestamp, current_rate) ==
    [self EXCEPT !.last_settlement_timestamps = Put(@, symbol, current_timestamp)]

\* variant of UpdateTracking: nothing is stored once the hourly cap is reached
MutUpdateTrackingUnlessCapped(self, symbol, current_timestamp, current_rate) ==
    IF self.alert_count_this_hour >= MAX_ALERTS_PER_HOUR THEN self
    ELSE [self EXCEPT !.last_settlement_timestamps = Put(@, symbol, current_timestamp),
                      !.previous_settlement_rates = Put(@, symbol, current_rate)]

\* variant of UpdateTracking: the rate is stored for the symbols of
\* FULL_ALERT_SYMBOLS only
MutUpdateTrackingRateOfFullOnly(self, symbol, current_timestamp, current_rate) ==
    [self EXCEPT !.last_settlement_timestamps = Put(@, symbol, current_timestamp),
                 !.previous_settlement_rates =
                     IF symbol \in FULL_ALERT_SYMBOLS THEN Put(@, symbol, current_rate) ELSE @]

\* variant of UpdateTracking: a settlement at rate zero does not replace a
\* stored rate
MutUpdateTrackingKeepsRateAtZero(self, symbol, current_timestamp, current_rate) ==
    [self EXCEPT !.last_settlement_timestamps = Put(@, symbol, current_timestamp),
                 !.previous_settlement_rates =
                     IF current_rate = 0 /\ symbol \in DOMAIN @ THEN @
                     ELSE Put(@, symbol, current_rate)]

\* lines 142-144
UpdateTracking(self, symbol, current_timestamp, current_rate) ==
    [self EXCEPT !.last_settlement_timestamps = Put(@, symbol, current_timestamp),
                 !.previous_settlement_rates = Put(@, symbol, current_rate)]

\* variant of check_settlements_body: every entry of the snapshot counted as
\* a new settlement
Mut_check_settlements_body_counts_every_entry(acc, entry, current_hour) ==
    [acc EXCEPT !.new_settlements = @ + 1]

\* One iteration of the loop of check_settlements (lines 114-144).  acc holds
\* the engine, the alerts list, new_settlements, and for the history the clock
\* hour each alert was returned in and the symbols the limiter refused.
check_settlements_body(acc, entry, current_hour) ==
    LET self == acc.self
        symbol == entry.symbol
        current_timestamp == entry.fundingRateTimestamp
        current_rate == entry.fundingRate
        prev_timestamp == Get(self.last_settlement_timestamps, symbol, 0)
        has_prev_rate == symbol \in DOMAIN self.previous_settlement_rates
        alert == IF has_prev_rate
                 THEN _create_settlement_alert(symbol, current_rate,
                          self.previous_settlement_rates[symbol], current_timestamp)
                 ELSE <<>>
        lim == IF alert # <<>> THEN _can_send_alert(self, current_hour)
               ELSE [self |-> self, ok |-> FALSE]
        send == alert # <<>> /\ lim.ok
        counted == IF send THEN [lim.self EXCEPT !.alert_count_this_hour = @ + 1]
                   ELSE lim.self
    IN  IF IsNewSettlement(current_timestamp, prev_timestamp)
        THEN [self |-> UpdateTracking(counted, symbol, current_timestamp, current_rate),
              alerts |-> IF send THEN Append(acc.alerts, alert[1]) ELSE acc.alerts,
              hours |-> IF send THEN Append(acc.hours, current_hour) ELSE acc.hours,
              new_settlements |-> acc.new_settlements + 1,
              denied |-> IF alert # <<>> /\ ~lim.ok THEN acc.denied \cup {symbol}
                         ELSE acc.denied]
        ELSE acc

RECURSIVE check_settlements_loop(_, _, _, _)
check_settlements_loop(acc, settlements, clock, i) ==
    IF i > Len(settlements) THEN acc
    ELSE check_settlements_loop(check_settlements_body(acc, settlements[i], clock[i]),
                                settlements, clock, i + 1)

\* the engine after the call, the returned alerts, and new_settlements
check_settlements(self, settlements, clock) ==
    check_settlements_loop([self |-> self, alerts |-> <<>>, hours |-> <<>>,
                            new_settlements |-> 0, denied |-> {}],
                           settlements, clock, 1)

(***************************************************************************)
(* Persistence.                                                            *)
(***************************************************************************)
\* json.dump of a dict: the object's members, key and value, in the dict's
\* order (the keys are strings already; an int and a float are written as
\* the literal that reads back as the same number)
json_members(d, keys) == [i \in 1..Len(keys) |-> <<keys[i], d[keys[i]]>>]

json_dump(d) == json_members(d, InOrder(DOMAIN d, 1))

\* json.load of an object: a dict built member by member, a later member
\* with the same key replacing the earlier one
RECURSIVE json_load_from(_, _, _)
json_load_from(members, i, d) ==
    IF i > Len(members) THEN d
    ELSE json_load_from(members, i + 1, Put(d, members[i][1], members[i][2]))

json_load(members) == json_load_from(members, 1, EmptyDict)

\* variant of _save_state: the rates map is left out of the file
Mut_save_state_without_rates(self) ==
    <<[timestamps |-> json_dump(self.last_settlement_timestamps), rates |-> <<>>]>>

\* the file a successful _save_state leaves (last_updated left out)
_save_state(self) ==
    <<[timestamps |-> json_dump(self.last_settlement_timestamps),
       rates |-> json_dump(self.previous_settlement_rates)]>>

\* a file json.load rejects: one a failed write cut short, or other damage
CorruptFile == <<[corrupt |-> TRUE]>>

\* What _save_state leaves in the file.  outcome "ok": the write succeeds;
\* "failed": makedirs or open raised and the file is as it was; "cut": open
\* truncated the file and the write raised.  The exception is caught and
\* logged in each case.
SaveOutcomes == {"ok", "failed", "cut"}

StoreAfterSave(self, file, outcome) ==
    IF outcome = "ok" THEN _save_state(self)
    ELSE IF outcome = "cut" THEN CorruptFile
    ELSE file

\* variant of _load_state: only the timestamps are taken from the file
Mut_load_state_timestamps_only(self, file, readable) ==
    IF file = <<>> THEN self
    ELSE IF ~readable \/ "corrupt" \in DOMAIN file[1] THEN self
    ELSE [self EXCEPT !.last_settlement_timestamps = json_load(file[1].timestamps)]

\* variant of _load_state: a rejected file leaves a placeholder entry
Mut_load_state_placeholder(self, file, readable) ==
    IF file = <<>> THEN self
    ELSE IF ~readable \/ "corrupt" \in DOMAIN file[1]
    THEN [self EXCEPT !.last_settlement_timestamps = [k \in {"BTCUSDT"} |-> 0]]
    ELSE [self EXCEPT !.last_settlement_timestamps = json_load(file[1].timestamps),
                      !.previous_settlement_rates = json_load(file[1].rates)]

\* variant of SaveCaught: the exception of a failed write leaves the call
\* without its alerts
MutSaveRaises(r, outcome) ==
    IF r.new_settlements > 0 /\ outcome # "ok" THEN [r EXCEPT !.alerts = <<>>, !.hours = <<>>]
    ELSE r

\* What check_settlements goes on with after _save_state (line 148): the
\* except clause of lines 60-61 catches whatever the write raised, so the
\* call's result r is as it was.
SaveCaught(r, outcome) == r

\* _load_state: the engine after it.  readable is FALSE when open raises.
\* A missing file leaves the engine as constructed; so does the exception of
\* an unreadable or rejected file, raised before either assignment.
_load_state(self, file, readable) ==
    IF file = <<>> THEN self
    ELSE IF ~readable \/ "corrupt" \in DOMAIN file[1] THEN self
    ELSE [self EXCEPT
            !.last_settlement_timestamps =
                IF "timestamps" \in DOMAIN file[1] THEN json_load(file[1].timestamps)
                ELSE EmptyDict,
            !.previous_settlement_rates =
                IF "rates" \in DOMAIN file[1] THEN json_load(file[1].rates)
                ELSE EmptyDict]

\* FundingRateMonitor.__init__: the engine constructed at clock hour
\* current_hour over the file
NewEngine(file, readable, current_hour) ==
    _load_state([last_settlement_timestamps |-> EmptyDict,
                 previous_settlement_rates |-> EmptyDict,
                 alerted_predicted_rates |-> EmptyDict,
                 alert_count_this_hour |-> 0,
                 hour_start |-> current_hour],
                file, readable)

(***************************************************************************)
(* Predicted-rate detection.                                               *)
(***************************************************************************)
_is_rate_extreme(rate, threshold) == Abs(rate) >= threshold

\* on the dict self.alerted_predicted_rates
_clear_alerted_rate(alerted, symbol) ==
    IF symbol \in DOMAIN alerted THEN Del(alerted, symbol) ELSE alerted

_rate_flipped_sign(current_rate, prev_rate) == (current_rate > 0) # (prev_rate > 0)

\* variant of _rate_changed_significantly: threshold 0.25
Mut_rate_changed_significantly_quarter(current_rate, prev_rate) ==
    IF prev_rate = 0 THEN TRUE
    ELSE 4 * Abs(current_rate - prev_rate) >= Abs(prev_rate)

\* variant of _rate_changed_significantly: a change of exactly 50% does not
\* count
Mut_rate_changed_significantly_strict(current_rate, prev_rate) ==
    IF prev_rate = 0 THEN TRUE
    ELSE 2 * Abs(current_rate - prev_rate) > Abs(prev_rate)

\* threshold 0.5: abs(current - prev) / abs(prev) >= 0.5.  Both rates are
\* the floats the engine holds; between 0.5 and 2 times prev_rate the
\* subtraction is exact and the division rounds monotonically about the
\* representable 0.5, and outside that range the quotient is far from 0.5,
\* so the float comparison is the comparison of the exact quotient.
_rate_changed_significantly(current_rate, prev_rate) ==
    IF prev_rate = 0 THEN TRUE
    ELSE 2 * Abs(current_rate - prev_rate) >= Abs(prev_rate)

\* variant of _should_alert_for_rate: magnitudes compared, no sign rule
Mut_should_alert_for_rate_by_magnitude(self, symbol, current_rate) ==
    IF symbol \notin DOMAIN self.alerted_predicted_rates THEN TRUE
    ELSE _rate_changed_significantly(Abs(current_rate),
                                     Abs(self.alerted_predicted_rates[symbol]))

_should_alert_for_rate(self, symbol, current_rate) ==
    IF symbol \notin DOMAIN self.alerted_predicted_rates THEN TRUE
    ELSE IF _rate_flipped_sign(current_rate, self.alerted_predicted_rates[symbol]) THEN TRUE
    ELSE _rate_changed_significantly(current_rate, self.alerted_predicted_rates[symbol])

_create_predicted_alert(symbol, rate) ==
    [symbol |-> symbol, fundingRate |-> rate, alertType |-> "predicted"]

\* appends the alert, counts it and records the cooldown baseline
_record_alert(acc, symbol, rate, alert, current_hour) ==
    [acc EXCEPT !.alerts = Append(@, alert),
                !.hours = Append(@, current_hour),
                !.self.alert_count_this_hour = @ + 1,
                !.self.alerted_predicted_rates = Put(@, symbol, rate)]

\* variant of check_predicted_rates_body: a suppressed extreme rate becomes
\* the baseline
Mut_check_predicted_rates_body_tracks_observed(acc, entry, current_hour) ==
    IF ~_is_rate_extreme(entry.fundingRate, PREDICTED_RATE_THRESHOLD)
    THEN [acc EXCEPT !.self.alerted_predicted_rates = _clear_alerted_rate(@, entry.symbol)]
    ELSE IF ~_should_alert_for_rate(acc.self, entry.symbol, entry.fundingRate)
    THEN [acc EXCEPT !.self.alerted_predicted_rates = Put(@, entry.symbol, entry.fundingRate)]
    ELSE IF ~_can_send_alert(acc.self, current_hour).ok
    THEN [acc EXCEPT !.self = _can_send_alert(acc.self, current_hour).self,
                     !.denied = @ \cup {entry.symbol}]
    ELSE _record_alert([acc EXCEPT !.self = _can_send_alert(acc.self, current_hour).self],
                       entry.symbol, entry.fundingRate,
                       _create_predicted_alert(entry.symbol, entry.fundingRate), current_hour)

\* variant of check_predicted_rates_body: the rate the limiter refused is
\* recorded as the baseline all the same
Mut_check_predicted_rates_body_records_denied(acc, entry, current_hour) ==
    IF ~_is_rate_extreme(entry.fundingRate, PREDICTED_RATE_THRESHOLD)
    THEN [acc EXCEPT !.self.alerted_predicted_rates = _clear_alerted_rate(@, entry.symbol)]
    ELSE IF ~_should_alert_for_rate(acc.self, entry.symbol, entry.fundingRate) THEN acc
    ELSE IF ~_can_send_alert(acc.self, current_hour).ok
    THEN [acc EXCEPT !.self = [_can_send_alert(acc.self, current_hour).self
                                 EXCEPT !.alerted_predicted_rates =
                                            Put(@, entry.symbol, entry.fundingRate)],
                     !.denied = @ \cup {entry.symbol}]
    ELSE _record_alert([acc EXCEPT !.self = _can_send_alert(acc.self, current_hour).self],
                       entry.symbol, entry.fundingRate,
                       _create_predicted_alert(entry.symbol, entry.fundingRate), current_hour)

\* one iteration of the loop of check_predicted_rates (lines 260-279)
check_predicted_rates_body(acc, entry, current_hour) ==
    LET symbol == entry.symbol
        current_rate == entry.fundingRate
        lim == _can_send_alert(acc.self, current_hour)
    IN  IF ~_is_rate_extreme(current_rate, PREDICTED_RATE_THRESHOLD)
        THEN [acc EXCEPT !.self.alerted_predicted_rates = _clear_alerted_rate(@, symbol)]
        ELSE IF ~_should_alert_for_rate(acc.self, symbol, current_rate) THEN acc
        ELSE IF ~lim.ok
        THEN [acc EXCEPT !.self = lim.self, !.denied = @ \cup {symbol}]
        ELSE _record_alert([acc EXCEPT !.self = lim.self], symbol, current_rate,
                           _create_predicted_alert(symbol, current_rate), current_hour)

RECURSIVE check_predicted_rates_loop(_, _, _, _)
check_predicted_rates_loop(acc, ticker_data, clock, i) ==
    IF i > Len(ticker_data) THEN acc
    ELSE check_predicted_rates_loop(check_predicted_rates_body(acc, ticker_data[i], clock[i]),
                                    ticker_data, clock, i + 1)

\* variant of check_predicted_rates: the cooldown entries of the symbols the
\* snapshot leaves out are dropped first
Mut_check_predicted_rates_prunes_absent(self, ticker_data, clock) ==
    check_predicted_rates_loop(
        [self |-> [self EXCEPT !.alerted_predicted_rates =
                      [k \in {x \in DOMAIN @ : \E i \in 1..Len(ticker_data) :
                                                  ticker_data[i].symbol = x} |-> @[k]]],
         alerts |-> <<>>, hours |-> <<>>, denied |-> {}],
        ticker_data, clock, 1)

check_predicted_rates(self, ticker_data, clock) ==
    IF ~ALERT_ON_PREDICTED_RATES
    THEN [self |-> self, alerts |-> <<>>, hours |-> <<>>, denied |-> {}]
    ELSE check_predicted_rates_loop([self |-> self, alerts |-> <<>>, hours |-> <<>>,
                                     denied |-> {}],
                                    ticker_data, clock, 1)

clear_predicted_alerts_after_settlement(self, symbol) ==
    IF symbol \in DOMAIN self.alerted_predicted_rates
    THEN [self EXCEPT !.alerted_predicted_rates = Del(@, symbol)]
    ELSE self

(***************************************************************************)
(* The poll cycle's use of the engine: AlertMonitor._check_funding lines   *)
(* 130-146.                                                                *)
(***************************************************************************)
\* variant of ClearSettled: the loop of lines 134-135 left out
MutClearSettledNothing(self, settlement_alerts, i) == self

\* lines 134-135: the loop over the settlement alerts
RECURSIVE ClearSettled(_, _, _)
ClearSettled(self, settlement_alerts, i) ==
    IF i > Len(settlement_alerts) THEN self
    ELSE ClearSettled(clear_predicted_alerts_after_settlement(self, settlement_alerts[i].symbol),
                      settlement_alerts, i + 1)

\* index of the first alert of the list with the largest abs(fundingRate)
FirstLargest(list) ==
    CHOOSE i \in 1..Len(list) :
        /\ \A j \in 1..Len(list) : Abs(list[j].fundingRate) <= Abs(list[i].fundingRate)
        /\ \A j \in 1..(i - 1) : Abs(list[j].fundingRate) < Abs(list[i].fundingRate)

Remove(list, i) == SubSeq(list, 1, i - 1) \o SubSeq(list, i + 1, Len(list))

\* sorted(list, key=abs(fundingRate), reverse=True): stable
RECURSIVE SortedByAbsRate(_)
SortedByAbsRate(list) ==
    IF list = <<>> THEN <<>>
    ELSE <<list[FirstLargest(list)]>> \o SortedByAbsRate(Remove(list, FirstLargest(list)))

\* variant of LimitToTop5: the first five as returned
MutLimitToFirst5(list) ==
    IF Len(list) > 5 THEN SubSeq(list, 1, 5) ELSE list

\* lines 141-146
LimitToTop5(list) ==
    IF Len(list) > 5 THEN SubSeq(SortedByAbsRate(list), 1, 5) ELSE list

(***************************************************************************)
(* The clock during a call.  The engine reads it once in every iteration   *)
(* that reaches _can_send_alert; reading i is that of iteration i.         *)
(* adv = 0: the hour does not change during the call; adv = k > 0: the     *)
(* hour has advanced when iteration k starts.                              *)
(***************************************************************************)
Clock(n, adv) == [i \in 1..n |-> IF adv > 0 /\ i >= adv THEN now + 1 ELSE now]

CountIn(hours, h) == Cardinality({i \in 1..Len(hours) : hours[i] = h})

\* the engine's fields after a call
SetSelf(self) ==
    /\ last_settlement_timestamps' = self.last_settlement_timestamps
    /\ previous_settlement_rates' = self.previous_settlement_rates
    /\ alerted_predicted_rates' = self.alerted_predicted_rates
    /\ alert_count_this_hour' = self.alert_count_this_hour
    /\ hour_start' = self.hour_start

\* the clock and the per-hour history after a call whose alerts were
\* returned in the clock hours `hours`
SetClock(adv, hours) ==
    /\ now' = IF adv > 0 THEN now + 1 ELSE now
    /\ sent_this_hour' = IF adv > 0 THEN CountIn(hours, now + 1)
                         ELSE sent_this_hour + CountIn(hours, now)
    /\ sent_before_advance' = IF adv > 0 THEN sent_this_hour + CountIn(hours, now) ELSE 0

\* What call records of a check_settlements call: the entries of the snapshot
\* whose timestamp is later than the stored one of their symbol (0 when the
\* symbol is unseen), in order; the symbols of the other entries; and the
\* symbols whose new entry flips the sign of the stored rate; and what the
\* call did to the state file: "none" (no write), "ok" (written) or "failed"
\* (the write raised).  Of a check_predicted_rates call it records the
\* ticker snapshot and the cooldown entries held before the call.
NewEntries(settlements) ==
    SelectSeq(settlements,
              LAMBDA e : e.fundingRateTimestamp > Get(last_settlement_timestamps, e.symbol, 0))

StaleSymbols(settlements) ==
    {settlements[i].symbol : i \in {j \in 1..Len(settlements) :
        settlements[j].fundingRateTimestamp
            <= Get(last_settlement_timestamps, settlements[j].symbol, 0)}}

\* the symbols whose new entry carries a rate of the sign opposite to the
\* stored rate
FlippedSymbols(settlements) ==
    {settlements[i].symbol : i \in {j \in 1..Len(settlements) :
        /\ settlements[j].fundingRateTimestamp
              > Get(last_settlement_timestamps, settlements[j].symbol, 0)
        /\ settlements[j].symbol \in DOMAIN previous_settlement_rates
        /\ \/ previous_settlement_rates[settlements[j].symbol] > 0
                 /\ settlements[j].fundingRate < 0
           \/ previous_settlement_rates[settlements[j].symbol] < 0
                 /\ settlements[j].fundingRate > 0}}

AlertedSettlements(list) == {<<list[i].symbol, list[i].settlementTime>> : i \in 1..Len(list)}

(***************************************************************************)
(* The driver's send loop, AlertMonitor._check_funding lines 148-154.      *)
(***************************************************************************)
\* What TelegramClient.send_message meets: "ok" is HTTP 200 with result ok;
\* "failed" is any other status, a result that is not ok, a timeout or any
\* exception, all of which it catches and answers with False (lines 60-79).
SendOutcomes == {"ok", "failed"}

\* send_funding_alert: True iff the message was delivered
send_funding_alert(alert, outcome) == outcome = "ok"

\* variant of AllAlerts: the predicted alerts ahead of the settlement alerts
MutAllAlertsPredictedFirst(settlement_alerts, predicted) == predicted \o settlement_alerts

\* all_alerts = alerts + predicted_alerts (line 149)
AllAlerts(settlement_alerts, predicted) == settlement_alerts \o predicted

\* variant of SendAlertsFrom: the loop ends at the first failed delivery
RECURSIVE MutSendAlertsUntilFailure(_, _, _)
MutSendAlertsUntilFailure(all_alerts, outcomes, i) ==
    IF i > Len(all_alerts) THEN <<>>
    ELSE IF ~send_funding_alert(all_alerts[i], outcomes[i])
    THEN <<[alert |-> all_alerts[i], success |-> FALSE]>>
    ELSE <<[alert |-> all_alerts[i], success |-> TRUE]>>
         \o MutSendAlertsUntilFailure(all_alerts, outcomes, i + 1)

\* the loop of lines 150-154 from all_alerts[i] on: what it hands over
RECURSIVE SendAlertsFrom(_, _, _)
SendAlertsFrom(all_alerts, outcomes, i) ==
    IF i > Len(all_alerts) THEN <<>>
    ELSE <<[alert |-> all_alerts[i],
            success |-> send_funding_alert(all_alerts[i], outcomes[i])]>>
         \o SendAlertsFrom(all_alerts, outcomes, i + 1)

\* the deliveries n alerts may meet, and the one in which all succeed
Deliveries(n) == [1..n -> SendOutcomes]

AllDelivered(n) == {[i \in 1..n |-> "ok"]}

\* a step that is neither a send loop nor a symbol refresh
NoDispatch ==
    /\ dispatched' = <<>>
    /\ symbols' = symbols

(***************************************************************************)
(* Actions.                                                                *)
(***************************************************************************)
\* FundingRateMonitor.__init__ with no state file: lines 15-33
Init ==
    /\ last_settlement_timestamps = EmptyDict
    /\ previous_settlement_rates = EmptyDict
    /\ alerted_predicted_rates = EmptyDict
    /\ alert_count_this_hour = 0
    /\ hour_start = 0
    /\ now = 0
    /\ LoopStarted
    /\ call = [op |-> "__init__"]
    /\ alerts = <<>>
    /\ predicted_alerts = <<>>
    /\ denied = {}
    /\ store = <<>>
    /\ settled_alerted = {}
    /\ sent_this_hour = 0
    /\ sent_before_advance = 0
    /\ symbols = Symbols
    /\ dispatched = <<>>

\* A call of check_settlements(settlements, ticker_data).  With one symbol in
\* FULL_ALERT_SYMBOLS the call reads the clock at most once, so an hour
\* boundary during the call is a Tick before or after it.
CheckSettlementsSaving(settlements, outcome) ==
    \E r \in {SaveCaught(check_settlements(Self, settlements, Clock(Len(settlements), 0)),
                         outcome)} :
        /\ SetSelf(r.self)
        /\ SetClock(0, r.hours)
        /\ LoopIdle
        /\ call' = [op |-> "check_settlements", settlements |-> NewEntries(settlements),
                    stale |-> StaleSymbols(settlements),
                    flipped |-> FlippedSymbols(settlements),
                    saved |-> IF r.new_settlements = 0 THEN "none"
                              ELSE IF outcome = "ok" THEN "ok" ELSE "failed"]
        /\ alerts' = r.alerts
        /\ predicted_alerts' = <<>>
        /\ denied' = r.denied
        /\ store' = IF r.new_settlements > 0 THEN StoreAfterSave(r.self, store, outcome)
                     ELSE store
        /\ settled_alerted' = settled_alerted \cup AlertedSettlements(r.alerts)
        /\ NoDispatch

\* the call when the store takes every write
CheckSettlements(settlements) == CheckSettlementsSaving(settlements, "ok")

\* the same call, call keeping the whole settlements map it was given
CheckSettlementsObserved(settlements, outcome) ==
    \E r \in {SaveCaught(check_settlements(Self, settlements, Clock(Len(settlements), 0)),
                         outcome)} :
        /\ SetSelf(r.self)
        /\ SetClock(0, r.hours)
        /\ LoopIdle
        /\ call' = [op |-> "check_settlements", settlements |-> settlements,
                    saved |-> IF r.new_settlements = 0 THEN "none"
                              ELSE IF outcome = "ok" THEN "ok" ELSE "failed"]
        /\ alerts' = r.alerts
        /\ predicted_alerts' = <<>>
        /\ denied' = r.denied
        /\ store' = IF r.new_settlements > 0 THEN StoreAfterSave(r.self, store, outcome)
                     ELSE store
        /\ settled_alerted' = settled_alerted \cup AlertedSettlements(r.alerts)
        /\ NoDispatch

\* a call of check_predicted_rates(ticker_data)
CheckPredictedRates(ticker_data, adv) ==
    \E r \in {check_predicted_rates(Self, ticker_data, Clock(Len(ticker_data), adv))} :
        /\ adv > 0 => now < MaxHour
        /\ SetSelf(r.self)
        /\ SetClock(adv, r.hours)
        /\ LoopIdle
        /\ call' = [op |-> "check_predicted_rates", ticker_data |-> ticker_data,
                    baseline |-> alerted_predicted_rates]
        /\ alerts' = <<>>
        /\ predicted_alerts' = r.alerts
        /\ denied' = r.denied
        /\ NoDispatch
        /\ UNCHANGED <<store, settled_alerted>>

\* a call of clear_predicted_alerts_after_settlement(symbol)
ClearPredictedAlertsAfterSettlement(symbol) ==
    /\ SetSelf(clear_predicted_alerts_after_settlement(Self, symbol))
    /\ LoopIdle
    /\ call' = [op |-> "clear_predicted_alerts_after_settlement", symbol |-> symbol]
    /\ alerts' = <<>>
    /\ predicted_alerts' = <<>>
    /\ denied' = {}
    /\ sent_before_advance' = 0
    /\ NoDispatch
    /\ UNCHANGED <<now, store, settled_alerted, sent_this_hour>>

\* The process is restarted: a new FundingRateMonitor is constructed over the
\* state file (lines 15-33).  settled_alerted runs on across instances; the
\* per-hour counts are those of the running instance.
Restart(readable) ==
    /\ SetSelf(NewEngine(store, readable, now))
    /\ LoopIdle
    /\ call' = [op |-> "restart", readable |-> readable]
    /\ alerts' = <<>>
    /\ predicted_alerts' = <<>>
    /\ denied' = {}
    /\ sent_this_hour' = 0
    /\ sent_before_advance' = 0
    /\ NoDispatch
    /\ UNCHANGED <<now, store, settled_alerted>>

\* AlertMonitor._refresh_symbols (FundingRateBot.refresh_symbols): an empty
\* answer of the exchange keeps the list; the monitor is not touched
RefreshSymbols(new_symbols) ==
    /\ symbols' = IF new_symbols # {} THEN new_symbols ELSE symbols
    /\ LoopIdle
    /\ call' = [op |-> "_refresh_symbols"]
    /\ alerts' = <<>>
    /\ predicted_alerts' = <<>>
    /\ denied' = {}
    /\ dispatched' = <<>>
    /\ sent_before_advance' = 0
    /\ UNCHANGED <<last_settlement_timestamps, previous_settlement_rates,
                   alerted_predicted_rates, alert_count_this_hour, hour_start, now, store,
                   settled_alerted, sent_this_hour>>

\* the clock passes an hour boundary between two calls
Tick ==
    /\ now < MaxHour
    /\ now' = now + 1
    /\ sent_this_hour' = 0
    /\ sent_before_advance' = 0
    /\ LoopIdle
    /\ call' = [op |-> "tick"]
    /\ alerts' = <<>>
    /\ predicted_alerts' = <<>>
    /\ denied' = {}
    /\ NoDispatch
    /\ UNCHANGED <<last_settlement_timestamps, previous_settlement_rates,
                   alerted_predicted_rates, alert_count_this_hour, hour_start, store,
                   settled_alerted>>

\* One poll cycle, AlertMonitor._check_funding (FundingRateBot.
\* check_funding_settlements is the same code): alerts and predicted_alerts
\* are its two local lists, dispatched is its send loop.  r1 is what
\* check_settlements returned at line 131.  The hour may advance before
\* iteration adv of check_predicted_rates.  file is the state file as line
\* 148 of check_settlements left it.  may_fail: deliveries may fail.  record
\* is what call keeps of the cycle.
CheckFundingCalled(r1, file, ticker_data, adv, may_fail, record) ==
    /\ adv > 0 => now < MaxHour
    /\ \E r2 \in {check_predicted_rates(ClearSettled(r1.self, r1.alerts, 1), ticker_data,
                                        Clock(Len(ticker_data), adv))} :
       \E outcomes \in IF may_fail
                        THEN Deliveries(Len(r1.alerts) + Len(LimitToTop5(r2.alerts)))
                        ELSE AllDelivered(Len(r1.alerts) + Len(LimitToTop5(r2.alerts))) :
           /\ dispatched' = SendAlertsFrom(AllAlerts(r1.alerts, LimitToTop5(r2.alerts)),
                                           outcomes, 1)
           /\ symbols' = symbols
           /\ SetSelf(r2.self)
           /\ SetClock(adv, r1.hours \o r2.hours)
           /\ LoopIdle
           /\ call' = record
           /\ alerts' = r1.alerts
           /\ predicted_alerts' = LimitToTop5(r2.alerts)
           /\ denied' = r1.denied \cup r2.denied
           /\ store' = file
           /\ settled_alerted' = settled_alerted \cup AlertedSettlements(r1.alerts)

CheckFundingFrom(r1, file, ticker_data, adv, may_fail) ==
    CheckFundingCalled(r1, file, ticker_data, adv, may_fail, [op |-> "_check_funding"])

CheckFundingDelivering(ticker_data, settlements, may_fail) ==
    /\ ticker_data # <<>>
    /\ settlements # <<>>
    /\ \E r1 \in {check_settlements(Self, settlements, Clock(Len(settlements), 0))} :
       \E file \in {IF r1.new_settlements > 0 THEN _save_state(r1.self) ELSE store} :
       \E adv \in 0..Len(ticker_data) :
           CheckFundingFrom(r1, file, ticker_data, adv, may_fail)

\* the poll cycle when every delivery succeeds
CheckFunding(ticker_data, settlements) ==
    CheckFundingDelivering(ticker_data, settlements, FALSE)

\* the same poll cycle, call keeping the tickers fetched at line 121 and the
\* cooldown entries the cycle started with
CheckFundingObserved(ticker_data, settlements) ==
    /\ ticker_data # <<>>
    /\ settlements # <<>>
    /\ \E r1 \in {check_settlements(Self, settlements, Clock(Len(settlements), 0))} :
       \E file \in {IF r1.new_settlements > 0 THEN _save_state(r1.self) ELSE store} :
       \E adv \in 0..Len(ticker_data) :
           CheckFundingCalled(r1, file, ticker_data, adv, FALSE,
                              [op |-> "_check_funding", ticker_data |-> ticker_data,
                               baseline |-> alerted_predicted_rates])

\* lines 116-128: a fetch that returned nothing ends the cycle
CheckFundingNoData ==
    /\ LoopIdle
    /\ call' = [op |-> "_check_funding"]
    /\ alerts' = <<>>
    /\ predicted_alerts' = <<>>
    /\ denied' = {}
    /\ NoDispatch
    /\ UNCHANGED <<last_settlement_timestamps, previous_settlement_rates,
                   alerted_predicted_rates, alert_count_this_hour, hour_start, now, store,
                   settled_alerted, sent_this_hour>>
    /\ sent_before_advance' = 0

\* variant of EarlyReturn: only an empty ticker result ends the cycle
MutEarlyReturnTickersOnly(ticker_data, settlements) == ticker_data = <<>>

\* lines 121-128: `if not ticker_data: return` and `if not settlements:
\* return`
EarlyReturn(ticker_data, settlements) == ticker_data = <<>> \/ settlements = <<>>

\* One poll cycle from its fetches on, lines 116-154.  With no tickers the
\* settlements are not fetched.  The hour changes between cycles, not within
\* one.  call keeps which fetch returned data, the
\* engine's methods the cycle called and, of a cycle that returned early,
\* the tickers it had fetched.
CheckFundingFetched(ticker_data, settlements) ==
    /\ ticker_data = <<>> => settlements = <<>>
    /\ IF EarlyReturn(ticker_data, settlements)
       THEN /\ LoopIdle
            /\ call' = [op |-> "_check_funding", calls |-> <<>>,
                        fetched |-> <<ticker_data # <<>>, settlements # <<>>>>,
                        ticker_data |-> ticker_data]
            /\ alerts' = <<>>
            /\ predicted_alerts' = <<>>
            /\ denied' = {}
            /\ NoDispatch
            /\ UNCHANGED <<last_settlement_timestamps, previous_settlement_rates,
                           alerted_predicted_rates, alert_count_this_hour, hour_start, now,
                           store, settled_alerted, sent_this_hour>>
            /\ sent_before_advance' = 0
       ELSE \E r1 \in {check_settlements(Self, settlements, Clock(Len(settlements), 0))} :
            \E file \in {IF r1.new_settlements > 0 THEN _save_state(r1.self) ELSE store} :
                CheckFundingCalled(r1, file, ticker_data, 0, FALSE,
                                   [op |-> "_check_funding",
                                    calls |-> <<"check_settlements", "check_predicted_rates">>,
                                    fetched |-> <<ticker_data # <<>>, settlements # <<>>>>])

(***************************************************************************)
(* What the snapshot source hands the poll cycle.  It reports a symbol's   *)
(* latest settlement: the one the engine saw last, or a later one (its     *)
(* timestamp taken as the next one).  A symbol with no settlement seen yet *)
(* may be left out; leaving out a symbol already seen has the effect of    *)
(* repeating its settlement, so the model repeats it.                      *)
(***************************************************************************)
\* the poll cycle's settled rates: one of each sign
FetchedSettledRates == {-1, 2}

LatestSettlementsOver(symbol, rates) ==
    {[symbol |-> symbol, fundingRate |-> rate,
      fundingRateTimestamp |-> Get(last_settlement_timestamps, symbol, 0) + 1]
     : rate \in {x \in rates : Get(last_settlement_timestamps, symbol, 0) < MaxTs}}
    \cup
    {[symbol |-> symbol, fundingRate |-> previous_settlement_rates[s],
      fundingRateTimestamp |-> last_settlement_timestamps[s]]
     : s \in {symbol} \cap DOMAIN last_settlement_timestamps}

\* a symbol outside FULL_ALERT_SYMBOLS, whose rate is only stored, settles at
\* one rate
SettledRatesOf(symbol) ==
    IF symbol \in FULL_ALERT_SYMBOLS THEN FetchedSettledRates ELSE {2}

LatestSettlements(symbol) == LatestSettlementsOver(symbol, SettledRatesOf(symbol))

\* the snapshots over the symbols SymbolOrder[i..], in that order
RECURSIVE FetchedSettlementsFrom(_)
FetchedSettlementsFrom(i) ==
    IF i > Len(SymbolOrder) THEN {<<>>}
    ELSE (IF SymbolOrder[i] \in DOMAIN last_settlement_timestamps THEN {}
          ELSE FetchedSettlementsFrom(i + 1))
         \cup {<<e>> \o rest : e \in LatestSettlements(SymbolOrder[i]),
                                rest \in FetchedSettlementsFrom(i + 1)}

FetchedSettlements == FetchedSettlementsFrom(1)

\* the poll cycle's tickers: a rate below the threshold or an extreme one
FetchedTickerRates == {1, 3}

FetchedTickers == TickersOver(FetchedTickerRates)

\* the tickers where the send loop is studied: every symbol, in the order
\* of SymbolOrder
DeliveredTickers ==
    {t \in FetchedTickers : /\ Len(t) = Len(SymbolOrder)
                            /\ \A i \in 1..Len(t) : t[i].symbol = SymbolOrder[i]}

DoCheckSettlements ==
    \E settlements \in SettlementSnapshots : CheckSettlements(settlements)

DoCheckSettlementsSaving ==
    \E settlements \in FetchedSettlements : \E outcome \in SaveOutcomes :
        CheckSettlementsSaving(settlements, outcome)

DoRestart ==
    \E readable \in BOOLEAN : Restart(readable)

DoCheckPredictedRates ==
    \E ticker_data \in TickerSnapshots : \E adv \in {0} \cup 2..Len(ticker_data) :
        CheckPredictedRates(ticker_data, adv)

DoClearPredictedAlerts ==
    \E symbol \in Symbols : ClearPredictedAlertsAfterSettlement(symbol)

DoCheckFunding ==
    \E settlements \in FetchedSettlements : \E ticker_data \in FetchedTickers :
        CheckFunding(ticker_data, settlements)

DoCheckFundingDelivering ==
    \E settlements \in FetchedSettlements : \E ticker_data \in DeliveredTickers :
        CheckFundingDelivering(ticker_data, settlements, TRUE)

\* the poll cycles over what the fetches return: tickers for every symbol
\* or none at all, the settlements as above or none at all
DoCheckFundingFetched ==
    \E settlements \in FetchedSettlements \cup {<<>>} :
    \E ticker_data \in DeliveredTickers \cup {<<>>} :
        CheckFundingFetched(ticker_data, settlements)

NextFetched ==
    \/ DoCheckFundingFetched
    \/ Tick

FetchedSpec == Init /\ [][NextFetched]_vars

\* the program: poll cycles as the clock runs
Next ==
    \/ DoCheckFunding
    \/ CheckFundingNoData
    \/ Tick

Spec == Init /\ [][Next]_vars

\* the engine under any sequence of check_settlements calls
NextSettlement ==
    \/ DoCheckSettlements
    \/ Tick

SettlementSpec == Init /\ [][NextSettlement]_vars

\* the engine under any sequence of check_predicted_rates calls
NextPredicted ==
    \/ DoCheckPredictedRates
    \/ DoClearPredictedAlerts
    \/ Tick

PredictedSpec == Init /\ [][NextPredicted]_vars

\* the engine and its state file: check_settlements calls whose save may
\* fail, and restarts of the process
NextPersistence ==
    \/ DoCheckSettlementsSaving
    \/ DoRestart

PersistenceSpec == Init /\ [][NextPersistence]_vars

\* the engine under check_predicted_rates calls and restarts of the process
NextPredictedRestart ==
    \/ DoCheckPredictedRates
    \/ DoRestart
    \/ Tick

PredictedRestartSpec == Init /\ [][NextPredictedRestart]_vars

\* The engine's calls over snapshots of the symbols the driver lists, which
\* leave out any of them, and the refresh of the list.
DoRefreshSymbols ==
    \E new_symbols \in SUBSET Symbols : RefreshSymbols(new_symbols)

\* the snapshots over the listed symbols among SymbolOrder[i..]: each is
\* left out or reported with its latest settlement
RECURSIVE ListedSettlementsFrom(_)
ListedSettlementsFrom(i) ==
    IF i > Len(SymbolOrder) THEN {<<>>}
    ELSE ListedSettlementsFrom(i + 1)
         \cup {<<e>> \o rest :
                 e \in IF SymbolOrder[i] \in symbols THEN LatestSettlements(SymbolOrder[i])
                       ELSE {},
                 rest \in ListedSettlementsFrom(i + 1)}

ListedTickers ==
    {t \in FetchedTickers : /\ \A i \in 1..Len(t) : t[i].symbol \in symbols
                            /\ \A i, j \in 1..Len(t) :
                                  (t[i].symbol = SymbolOrder[1] /\ t[j].symbol = SymbolOrder[2])
                                     => i < j}

DoCheckSettlementsListed ==
    \E settlements \in ListedSettlementsFrom(1) : CheckSettlements(settlements)

DoCheckPredictedRatesListed ==
    \E ticker_data \in ListedTickers : CheckPredictedRates(ticker_data, 0)

NextListed ==
    \/ DoCheckSettlementsListed
    \/ DoCheckPredictedRatesListed
    \/ DoRefreshSymbols
    \/ Tick

ListedSpec == Init /\ [][NextListed]_vars

\* the poll cycles with deliveries that may fail
NextDelivery ==
    \/ DoCheckFundingDelivering
    \/ CheckFundingNoData
    \/ Tick

DeliverySpec == Init /\ [][NextDelivery]_vars

\* The engine under check_settlements calls over a symbol's successive
\* settlements, a settlement at rate zero among them.  call keeps the new
\* entries of the snapshot and, for every symbol, the rates of its
\* settlements the engine has stored so far, in order.
SettledSoFar(symbol) ==
    IF "settled" \in DOMAIN call THEN call.settled[symbol] ELSE <<>>

\* the snapshots over the symbols SymbolOrder[i..]: each is left out or
\* reported with its latest settlement, the stored one or the next, a symbol
\* of FULL_ALERT_SYMBOLS at any rate of SettledRates
RECURSIVE SuccessiveSettlementsFrom(_)
SuccessiveSettlementsFrom(i) ==
    IF i > Len(SymbolOrder) THEN {<<>>}
    ELSE SuccessiveSettlementsFrom(i + 1)
         \cup {<<e>> \o rest :
                 e \in LatestSettlementsOver(SymbolOrder[i],
                           IF SymbolOrder[i] \in FULL_ALERT_SYMBOLS THEN SettledRates
                           ELSE {2}),
                 rest \in SuccessiveSettlementsFrom(i + 1)}

CheckSettlementsSuccessive(settlements) ==
    \E r \in {check_settlements(Self, settlements, Clock(Len(settlements), 0))} :
        /\ SetSelf(r.self)
        /\ SetClock(0, r.hours)
        /\ LoopIdle
        /\ call' = [op |-> "check_settlements", settlements |-> NewEntries(settlements),
                    settled |-> [symbol \in Symbols |->
                        SettledSoFar(symbol)
                          \o [j \in 1..Len(SelectSeq(NewEntries(settlements),
                                                      LAMBDA x : x.symbol = symbol))
                                |-> SelectSeq(NewEntries(settlements),
                                              LAMBDA x : x.symbol = symbol)[j].fundingRate]]]
        /\ alerts' = r.alerts
        /\ predicted_alerts' = <<>>
        /\ denied' = r.denied
        /\ store' = IF r.new_settlements > 0 THEN _save_state(r.self) ELSE store
        /\ settled_alerted' = settled_alerted \cup AlertedSettlements(r.alerts)
        /\ NoDispatch

DoCheckSettlementsSuccessive ==
    \E settlements \in SuccessiveSettlementsFrom(1) : CheckSettlementsSuccessive(settlements)

\* within one clock hour
SuccessiveSpec == Init /\ [][DoCheckSettlementsSuccessive]_vars

\* A settlement a snapshot may carry for a symbol: one timestamp before the
\* stored one, the stored one, or the next, at any of the symbol's rates (an
\* unseen symbol: its first settlement).
NearSettlements(symbol) ==
    {[symbol |-> symbol, fundingRate |-> rate, fundingRateTimestamp |-> t]
     : rate \in SettledRatesOf(symbol),
       t \in Timestamps \cap {Get(last_settlement_timestamps, symbol, 0) - 1,
                               Get(last_settlement_timestamps, symbol, 0),
                               Get(last_settlement_timestamps, symbol, 0) + 1}}

\* the snapshots over the symbols SymbolOrder[i..]: each is left out or
\* reported with one of those settlements
RECURSIVE NearSettlementsFrom(_)
NearSettlementsFrom(i) ==
    IF i > Len(SymbolOrder) THEN {<<>>}
    ELSE NearSettlementsFrom(i + 1)
         \cup {<<e>> \o rest : e \in NearSettlements(SymbolOrder[i]),
                                rest \in NearSettlementsFrom(i + 1)}

\* the engine under check_settlements calls, the state file taking every write
DoCheckSettlementsObserved ==
    \E settlements \in NearSettlementsFrom(1) : CheckSettlementsObserved(settlements, "ok")

NextRepeated ==
    \/ DoCheckSettlementsObserved
    \/ Tick

RepeatedSpec == Init /\ [][NextRepeated]_vars

(***************************************************************************)
(* The driver's cap on the predicted alerts of a cycle, lines 141-154,     *)
(* over the lists check_predicted_rates can return for a larger symbol     *)
(* list: one alert per symbol, in the order of the ticker snapshot.        *)
(***************************************************************************)
MaxReturned == 7

ManySymbols ==
    <<"BTCUSDT", "ETHUSDT", "SOLUSDT", "XRPUSDT", "DOGEUSDT", "ADAUSDT", "BNBUSDT",
      "LTCUSDT", "AVAXUSDT">>

\* extreme rates, two of them of one magnitude
ReturnedRates == {-4, 3, 4}

ReturnedPredicted ==
    UNION {{[i \in 1..n |-> _create_predicted_alert(ManySymbols[i], r[i])]
            : r \in [1..n -> ReturnedRates]}
           : n \in 0..MaxReturned}

\* check_predicted_rates has returned at line 138
Top5Init ==
    /\ last_settlement_timestamps = EmptyDict
    /\ previous_settlement_rates = EmptyDict
    /\ alerted_predicted_rates = EmptyDict
    /\ alert_count_this_hour = 0
    /\ hour_start = 0
    /\ now = 0
    /\ LoopStarted
    /\ \E returned \in ReturnedPredicted :
           call = [op |-> "check_predicted_rates", returned |-> returned]
    /\ alerts = <<>>
    /\ predicted_alerts = <<>>
    /\ denied = {}
    /\ store = <<>>
    /\ settled_alerted = {}
    /\ sent_this_hour = 0
    /\ sent_before_advance = 0
    /\ symbols = Symbols
    /\ dispatched = <<>>

\* lines 141-154 of the cycle
LimitAndSend ==
    /\ call.op = "check_predicted_rates"
    /\ LoopIdle
    /\ call' = [op |-> "_check_funding", returned |-> call.returned]
    /\ predicted_alerts' = LimitToTop5(call.returned)
    /\ \E outcomes \in AllDelivered(Len(alerts) + Len(LimitToTop5(call.returned))) :
           dispatched' = SendAlertsFrom(AllAlerts(alerts, LimitToTop5(call.returned)),
                                        outcomes, 1)
    /\ UNCHANGED <<last_settlement_timestamps, previous_settlement_rates,
                   alerted_predicted_rates, alert_count_this_hour, hour_start, now, alerts,
                   denied, store, settled_alerted, sent_this_hour,
                   sent_before_advance, symbols>>

Top5Spec == Top5Init /\ [][LimitAndSend]_vars

(***************************************************************************)
(* The poll cycle over a symbol list longer than five, under the hourly    *)
(* cap config.py configures.  The engine's operators above are repeated    *)
(* here with the cap as a parameter.                                       *)
(***************************************************************************)
\* config.py:101
ConfiguredAlertsPerHour == 200

\* alerts the engine has counted in the hour when the model stops polling
MaxCounted == 6

\* the driver's symbol list
ManyListed == {ManySymbols[i] : i \in 1..6}

\* _can_send_alert where config.MAX_ALERTS_PER_HOUR is cap
_can_send_alert_under(self, current_hour, cap) ==
    LET s == _reset_hourly_count_if_needed(self, current_hour)
    IN  [self |-> s, ok |-> s.alert_count_this_hour < cap]

\* one iteration of the loop of check_predicted_rates (lines 260-279)
check_predicted_rates_body_under(acc, entry, current_hour, cap) ==
    LET symbol == entry.symbol
        current_rate == entry.fundingRate
        lim == _can_send_alert_under(acc.self, current_hour, cap)
    IN  IF ~_is_rate_extreme(current_rate, PREDICTED_RATE_THRESHOLD)
        THEN [acc EXCEPT !.self.alerted_predicted_rates = _clear_alerted_rate(@, symbol)]
        ELSE IF ~_should_alert_for_rate(acc.self, symbol, current_rate) THEN acc
        ELSE IF ~lim.ok
        THEN [acc EXCEPT !.self = lim.self, !.denied = @ \cup {symbol}]
        ELSE _record_alert([acc EXCEPT !.self = lim.self], symbol, current_rate,
                           _create_predicted_alert(symbol, current_rate), current_hour)

RECURSIVE check_predicted_rates_loop_under(_, _, _, _, _)
check_predicted_rates_loop_under(acc, ticker_data, clock, i, cap) ==
    IF i > Len(ticker_data) THEN acc
    ELSE check_predicted_rates_loop_under(
             check_predicted_rates_body_under(acc, ticker_data[i], clock[i], cap),
             ticker_data, clock, i + 1, cap)

check_predicted_rates_under(self, ticker_data, clock, cap) ==
    IF ~ALERT_ON_PREDICTED_RATES
    THEN [self |-> self, alerts |-> <<>>, hours |-> <<>>, denied |-> {}]
    ELSE check_predicted_rates_loop_under([self |-> self, alerts |-> <<>>, hours |-> <<>>,
                                           denied |-> {}],
                                          ticker_data, clock, 1, cap)

\* the driver constructed over that list, the engine with no state file
ManyInit ==
    /\ last_settlement_timestamps = EmptyDict
    /\ previous_settlement_rates = EmptyDict
    /\ alerted_predicted_rates = EmptyDict
    /\ alert_count_this_hour = 0
    /\ hour_start = 0
    /\ now = 0
    /\ LoopStarted
    /\ call = [op |-> "__init__"]
    /\ alerts = <<>>
    /\ predicted_alerts = <<>>
    /\ denied = {}
    /\ store = <<>>
    /\ settled_alerted = {}
    /\ sent_this_hour = 0
    /\ sent_before_advance = 0
    /\ symbols = ManyListed
    /\ dispatched = <<>>

\* the settlements fetched for the list: every symbol's latest settlement,
\* all at one time and at one positive rate, the one the engine stored or
\* the next
ManySettlements ==
    {[i \in 1..Cardinality(ManyListed) |->
         [symbol |-> ManySymbols[i], fundingRate |-> 2, fundingRateTimestamp |-> t]]
     : t \in {x \in Timestamps :
                 \/ x = Get(last_settlement_timestamps, ManySymbols[1], 0)
                 \/ x = Get(last_settlement_timestamps, ManySymbols[1], 0) + 1}}

\* the tickers fetched for the list: every symbol, the first k or the last k
\* of them at an extreme rate and the others below the threshold
ManyTickers ==
    {[i \in 1..Cardinality(ManyListed) |->
         [symbol |-> ManySymbols[i], fundingRate |-> r[i]]]
     : r \in {x \in [1..Cardinality(ManyListed) -> FetchedTickerRates] :
                 \/ \A i \in 1..(Cardinality(ManyListed) - 1) : x[i] = 1 => x[i + 1] = 1
                 \/ \A i \in 1..(Cardinality(ManyListed) - 1) : x[i + 1] = 1 => x[i] = 1}}

\* One poll cycle, AlertMonitor._check_funding lines 113-154, every
\* delivery succeeding; call keeps what check_predicted_rates returned at
\* line 138.
CheckFundingMany(ticker_data, settlements) ==
    /\ ticker_data # <<>>
    /\ settlements # <<>>
    /\ alert_count_this_hour < MaxCounted
    /\ \E r1 \in {check_settlements(Self, settlements, Clock(Len(settlements), 0))} :
       \E r2 \in {check_predicted_rates_under(ClearSettled(r1.self, r1.alerts, 1), ticker_data,
                                              Clock(Len(ticker_data), 0),
                                              ConfiguredAlertsPerHour)} :
       \E outcomes \in AllDelivered(Len(r1.alerts) + Len(LimitToTop5(r2.alerts))) :
           /\ dispatched' = SendAlertsFrom(AllAlerts(r1.alerts, LimitToTop5(r2.alerts)),
                                           outcomes, 1)
           /\ symbols' = symbols
           /\ SetSelf(r2.self)
           /\ SetClock(0, r1.hours \o r2.hours)
           /\ LoopIdle
           /\ call' = [op |-> "_check_funding", returned |-> r2.alerts,
                       baseline |-> alerted_predicted_rates]
           /\ alerts' = r1.alerts
           /\ predicted_alerts' = LimitToTop5(r2.alerts)
           /\ denied' = r1.denied \cup r2.denied
           /\ store' = IF r1.new_settlements > 0 THEN _save_state(r1.self) ELSE store
           /\ settled_alerted' = settled_alerted \cup AlertedSettlements(r1.alerts)

DoCheckFundingMany ==
    \E settlements \in ManySettlements : \E ticker_data \in ManyTickers :
        CheckFundingMany(ticker_data, settlements)

NextMany ==
    \/ DoCheckFundingMany
    \/ CheckFundingNoData

ManySpec == ManyInit /\ [][NextMany]_vars

(***************************************************************************)
(* _should_alert_for_rate over the baselines and rates of a grid: the      *)
(* engine holds no entry or one entry, of any rate up to MaxRate, zero     *)
(* included, and the function is asked about any rate of the grid.         *)
(***************************************************************************)
MaxRate == 8

\* whole refresh periods counted since the last symbol refresh
MaxSince == 2

GridRates == (0 - MaxRate)..MaxRate

RateRuleInit ==
    /\ last_settlement_timestamps = EmptyDict
    /\ previous_settlement_rates = EmptyDict
    /\ alerted_predicted_rates \in {EmptyDict} \cup {[k \in {"BTCUSDT"} |-> p] : p \in GridRates}
    /\ alert_count_this_hour = 0
    /\ hour_start = 0
    /\ now = 0
    /\ LoopStarted
    /\ call = [op |-> "__init__"]
    /\ alerts = <<>>
    /\ predicted_alerts = <<>>
    /\ denied = {}
    /\ store = <<>>
    /\ settled_alerted = {}
    /\ sent_this_hour = 0
    /\ sent_before_advance = 0
    /\ symbols = Symbols
    /\ dispatched = <<>>

\* a call of _should_alert_for_rate(symbol, current_rate): it reads the
\* cooldown entry and changes nothing
ShouldAlertForRate(symbol, current_rate) ==
    /\ LoopIdle
    /\ call' = [op |-> "_should_alert_for_rate", symbol |-> symbol,
                current_rate |-> current_rate,
                result |-> _should_alert_for_rate(Self, symbol, current_rate)]
    /\ UNCHANGED <<last_settlement_timestamps, previous_settlement_rates,
                   alerted_predicted_rates, alert_count_this_hour, hour_start, now, alerts,
                   predicted_alerts, denied, store, settled_alerted, sent_this_hour,
                   sent_before_advance, symbols, dispatched>>

DoShouldAlertForRate ==
    \E symbol \in Symbols : \E current_rate \in GridRates :
        ShouldAlertForRate(symbol, current_rate)

RateRuleSpec == RateRuleInit /\ [][DoShouldAlertForRate]_vars

(***************************************************************************)
(* Poll cycles observed with their inputs: the tickers of the cycle and the *)
(* cooldown entries it started with are kept in call.                      *)
(***************************************************************************)
DoCheckFundingObserved ==
    \E settlements \in FetchedSettlements : \E ticker_data \in DeliveredTickers :
        CheckFundingObserved(ticker_data, settlements)

NextObserved ==
    \/ DoCheckFundingObserved
    \/ CheckFundingNoData
    \/ Tick

ObservedSpec == Init /\ [][NextObserved]_vars

(***************************************************************************)
(* The driver: AlertMonitor.__init__ and run (FundingRateBot.__init__ and   *)
(* monitoring_loop are the same code).  Elapsed time since the last symbol *)
(* refresh is counted in whole periods of SYMBOL_REFRESH_INTERVAL seconds, *)
(* MaxSince standing for MaxSince periods or more: the test of line 90 is  *)
(* time_since_refresh >= 1.  A signal may arrive at any point once the     *)
(* handlers are installed.                                                 *)
(***************************************************************************)
\* the universes the exchange may report: none (the fetch failed) or some
SymbolUniverses == {{}, {"BTCUSDT"}, Symbols}

\* variant of ExceptionCaught: the exception leaves the loop
MutExceptionEndsLoop == "done"

\* lines 97-98: an exception of the loop body is logged, and control goes on
\* to the sleep of line 101
ExceptionCaught == "sleep"

\* variant of WhileTest: while True
MutWhileTrue(flag) == "try"

\* line 87: while self.running
WhileTest(flag) == IF flag THEN "try" ELSE "done"

\* variant of _refresh_symbols: an empty answer also sets last_symbol_refresh
Mut_refresh_symbols_stamps_failure(listed, since, new_data) ==
    IF new_data # {} THEN [symbols |-> new_data, time_since_refresh |-> 0]
    ELSE [symbols |-> listed, time_since_refresh |-> 0]

\* lines 103-111: the symbols and the time since last_symbol_refresh after
\* the exchange answered new_data
_refresh_symbols(listed, since, new_data) ==
    IF new_data # {} THEN [symbols |-> new_data, time_since_refresh |-> 0]
    ELSE [symbols |-> listed, time_since_refresh |-> since]

\* the process before AlertMonitor() is constructed
LoopInit ==
    /\ last_settlement_timestamps = EmptyDict
    /\ previous_settlement_rates = EmptyDict
    /\ alerted_predicted_rates = EmptyDict
    /\ alert_count_this_hour = 0
    /\ hour_start = 0
    /\ now = 0
    /\ call = [op |-> "main"]
    /\ alerts = <<>>
    /\ predicted_alerts = <<>>
    /\ denied = {}
    /\ store = <<>>
    /\ settled_alerted = {}
    /\ sent_this_hour = 0
    /\ sent_before_advance = 0
    /\ symbols = {}
    /\ dispatched = <<>>
    /\ running = FALSE
    /\ pc = "__init__"
    /\ time_since_refresh = 0
    /\ handler = NoHandler
    /\ signals = Installed("default")
    /\ updates = 0

\* the cycle's lists and histories left as they are
CycleIdle ==
    /\ UNCHANGED <<alerts, predicted_alerts, denied, dispatched, store, settled_alerted,
                   sent_this_hour, sent_before_advance, now>>

EngineIdle ==
    UNCHANGED <<last_settlement_timestamps, previous_settlement_rates,
                alerted_predicted_rates, alert_count_this_hour, hour_start>>

\* AlertMonitor.__init__ (lines 40-76): credentials tells whether both
\* TELEGRAM_BOT_TOKEN and TELEGRAM_CHAT_ID are set, symbols_data is the
\* answer of get_all_perpetual_symbols_with_intervals
Construct(credentials, symbols_data) ==
    /\ pc = "__init__"
    /\ call' = [op |-> "__init__", credentials |-> credentials, symbols_data |-> symbols_data]
    /\ IF ~credentials
       THEN /\ pc' = "exited"
            /\ EngineIdle
            /\ UNCHANGED <<symbols, running, time_since_refresh>>
       ELSE /\ SetSelf(NewEngine(store, TRUE, now))
            /\ IF symbols_data = {}
               THEN /\ pc' = "exited"
                    /\ UNCHANGED <<symbols, running, time_since_refresh>>
               ELSE /\ symbols' = symbols_data
                    /\ running' = TRUE
                    /\ time_since_refresh' = 0
                    /\ pc' = "while"
    /\ signals' = IF credentials /\ symbols_data # {}
                  THEN [signals EXCEPT !.installed = "AlertMonitor._shutdown"]
                  ELSE signals
    /\ UNCHANGED <<handler, updates>>
    /\ CycleIdle

\* _shutdown (lines 79-81), run by the signal handler
Shutdown ==
    /\ pc \notin {"__init__", "exited", "done"}
    /\ running
    /\ running' = FALSE
    /\ EngineIdle
    /\ CycleIdle
    /\ HandlerIdle
    /\ UNCHANGED <<call, symbols, pc, time_since_refresh>>

\* line 87
LoopTest ==
    /\ pc = "while"
    /\ pc' = WhileTest(running)
    /\ EngineIdle
    /\ CycleIdle
    /\ HandlerIdle
    /\ UNCHANGED <<call, symbols, running, time_since_refresh>>

\* lines 89-91 when the refresh is due: _refresh_symbols runs and, unless it
\* raises, _check_funding is entered
RefreshDue(new_data, raises) ==
    /\ pc = "try"
    /\ time_since_refresh >= 1
    /\ call' = [op |-> "_refresh_symbols", new_data |-> new_data, raised |-> raises,
                before |-> symbols]
    /\ IF raises
       THEN /\ pc' = ExceptionCaught
            /\ UNCHANGED <<symbols, time_since_refresh>>
       ELSE /\ pc' = "fetch"
            /\ symbols' = _refresh_symbols(symbols, time_since_refresh, new_data).symbols
            /\ time_since_refresh' =
                   _refresh_symbols(symbols, time_since_refresh, new_data).time_since_refresh
    /\ running' = running
    /\ EngineIdle
    /\ CycleIdle
    /\ HandlerIdle

\* lines 89-91 when it is not: _check_funding is entered
RefreshNotDue ==
    /\ pc = "try"
    /\ time_since_refresh < 1
    /\ call' = [op |-> "run", raised |-> FALSE]
    /\ pc' = "fetch"
    /\ EngineIdle
    /\ CycleIdle
    /\ HandlerIdle
    /\ UNCHANGED <<symbols, running, time_since_refresh>>

\* _check_funding, lines 116-128: a fetch that raises, or returns nothing
FetchFails(raises) ==
    /\ pc = "fetch"
    /\ HandlerIdle
    /\ call' = [op |-> "_check_funding", raised |-> raises, at |-> "fetch"]
    /\ pc' = IF raises THEN ExceptionCaught ELSE "sleep"
    /\ alerts' = <<>>
    /\ predicted_alerts' = <<>>
    /\ denied' = {}
    /\ dispatched' = <<>>
    /\ sent_before_advance' = 0
    /\ EngineIdle
    /\ UNCHANGED <<store, settled_alerted, sent_this_hour, now, symbols, running,
                   time_since_refresh>>

\* _check_funding, lines 116-146, the data fetched: detection up to the send
\* loop; raises: an exception after check_settlements has returned
Detect(ticker_data, settlements, raises) ==
    /\ pc = "fetch"
    /\ HandlerIdle
    /\ ticker_data # <<>>
    /\ settlements # <<>>
    /\ \E r1 \in {check_settlements(Self, settlements, Clock(Len(settlements), 0))} :
       \E file \in {IF r1.new_settlements > 0 THEN _save_state(r1.self) ELSE store} :
       \E r2 \in {check_predicted_rates(ClearSettled(r1.self, r1.alerts, 1), ticker_data,
                                        Clock(Len(ticker_data), 0))} :
           /\ store' = file
           /\ settled_alerted' = settled_alerted \cup AlertedSettlements(r1.alerts)
           /\ dispatched' = <<>>
           /\ alerts' = r1.alerts
           /\ IF raises
              THEN /\ call' = [op |-> "_check_funding", raised |-> TRUE, at |-> "detection"]
                   /\ pc' = ExceptionCaught
                   /\ SetSelf(r1.self)
                   /\ SetClock(0, r1.hours)
                   /\ predicted_alerts' = <<>>
                   /\ denied' = r1.denied
              ELSE /\ call' = [op |-> "_check_funding", raised |-> FALSE, at |-> "detection"]
                   /\ pc' = "send"
                   /\ SetSelf(r2.self)
                   /\ SetClock(0, r1.hours \o r2.hours)
                   /\ predicted_alerts' = LimitToTop5(r2.alerts)
                   /\ denied' = r1.denied \cup r2.denied
    /\ UNCHANGED <<symbols, running, time_since_refresh>>

\* _check_funding, lines 148-154: the send loop; raised_at > 0: an exception
\* while alert number raised_at is sent
Deliver(raised_at) ==
    /\ pc = "send"
    /\ HandlerIdle
    /\ raised_at <= Len(AllAlerts(alerts, predicted_alerts))
    /\ call' = [op |-> "_check_funding", raised |-> raised_at > 0, at |-> "delivery",
                stopping |-> ~running]
    /\ pc' = IF raised_at > 0 THEN ExceptionCaught ELSE "sleep"
    /\ \E outcomes \in AllDelivered(Len(AllAlerts(alerts, predicted_alerts))) :
           dispatched' =
               IF raised_at > 0
               THEN SubSeq(SendAlertsFrom(AllAlerts(alerts, predicted_alerts), outcomes, 1),
                           1, raised_at - 1)
               ELSE SendAlertsFrom(AllAlerts(alerts, predicted_alerts), outcomes, 1)
    /\ EngineIdle
    /\ UNCHANGED <<alerts, predicted_alerts, denied, store, settled_alerted, sent_this_hour,
                   sent_before_advance, now, symbols, running, time_since_refresh>>

\* line 101: the sleep of CHECK_INTERVAL seconds, during which a period since
\* the last refresh may complete
Sleep(periods) ==
    /\ pc = "sleep"
    /\ pc' = "while"
    /\ time_since_refresh' = IF time_since_refresh + periods > MaxSince THEN MaxSince
                             ELSE time_since_refresh + periods
    /\ EngineIdle
    /\ CycleIdle
    /\ HandlerIdle
    /\ UNCHANGED <<call, symbols, running>>

DoConstruct ==
    \E credentials \in BOOLEAN : \E symbols_data \in SymbolUniverses :
        Construct(credentials, symbols_data)

DoRefreshDue ==
    \E new_data \in SymbolUniverses : \E raises \in BOOLEAN : RefreshDue(new_data, raises)

DoFetchFails ==
    \E raises \in BOOLEAN : FetchFails(raises)

\* what the fetches of a cycle return when they return data: every listed
\* symbol, in the order of SymbolOrder, the settlements of one time, the
\* predicted rates all below the threshold or all extreme
LoopSettlements ==
    {s \in ListedSettlementsFrom(1) :
        /\ Len(s) = Cardinality(symbols)
        /\ \A i, j \in 1..Len(s) : s[i].fundingRateTimestamp = s[j].fundingRateTimestamp}

LoopTickers ==
    {t \in ListedTickers : /\ Len(t) = Cardinality(symbols)
                           /\ \A i, j \in 1..Len(t) : t[i].fundingRate = t[j].fundingRate}

DoDetect ==
    \E settlements \in LoopSettlements : \E ticker_data \in LoopTickers :
    \E raises \in BOOLEAN :
        Detect(ticker_data, settlements, raises)

DoDeliver ==
    \E raised_at \in 0..MaxReturned : Deliver(raised_at)

DoSleep ==
    \E periods \in {0, 1} : Sleep(periods)

\* the steps of the run coroutine
LoopStep ==
    \/ LoopTest
    \/ DoRefreshDue
    \/ RefreshNotDue
    \/ DoFetchFails
    \/ DoDetect
    \/ DoDeliver
    \/ DoSleep

NextLoop ==
    \/ DoConstruct
    \/ LoopStep
    \/ Shutdown

LoopSpec == LoopInit /\ [][NextLoop]_vars

\* the loop where the event loop keeps running the coroutine: a sleep ends,
\* and every fetch and send returns or raises (each has a timeout)
LoopLiveSpec == LoopSpec /\ WF_vars(LoopStep)

(***************************************************************************)
(* The poll task and the on-demand query task side by side                 *)
(* (FundingRateBot.run gathers monitoring_loop and command_listener;       *)
(* start_bot.py gathers CommandHandler.start and AlertMonitor.run).  Both  *)
(* are coroutines of one event loop: the query task runs only while the    *)
(* poll task stands at an await, that is in its fetches (run_in_executor), *)
(* in its send loop or in its sleep.  Lines 230-237 of                     *)
(* check_funding_settlements hold no await, so the three engine calls of a *)
(* cycle are one step.                                                     *)
(***************************************************************************)
\* the commands of handle_command and CommandHandler.handle_update
Commands == {"/funding", "/funding SYMBOL", "/funding SYMBOL DDMMYY", "/status"}

\* variant of handle_command: /status starts a new rate-limit window
Mut_handle_command_resets_count(self, command) ==
    IF command = "/status" THEN [self EXCEPT !.alert_count_this_hour = 0] ELSE self

\* the engine after a command was handled: no handler refers to self.monitor
handle_command(self, command) == self

\* one update handled by the query task
HandleCommand(command) ==
    /\ pc \in {"fetch", "send", "sleep", "done"}
    /\ call' = [op |-> "handle_command", command |-> command,
                status |-> IF command = "/status"
                           THEN <<running, Cardinality(symbols)>> ELSE <<>>]
    /\ SetSelf(handle_command(Self, command))
    /\ CycleIdle
    /\ HandlerIdle
    /\ UNCHANGED <<symbols, running, pc, time_since_refresh>>

DoHandleCommand ==
    \E command \in Commands : HandleCommand(command)

NextBot ==
    \/ NextLoop
    \/ DoHandleCommand

BotSpec == LoopInit /\ [][NextBot]_vars

(***************************************************************************)
(* The CommandHandler's poll loop (command_handler.py lines 49-94;         *)
(* FundingRateBot.command_listener is the same loop) and the unified       *)
(* starter, start_bot.py, whose gather runs CommandHandler.start and       *)
(* AlertMonitor.run as two tasks of one process.  gather starts its tasks  *)
(* in argument order: the CommandHandler is constructed first, and the     *)
(* AlertMonitor when start first awaits.  signal.signal replaces the       *)
(* process's handler of the signal.                                        *)
(***************************************************************************)
\* updates that arrive at Telegram in a run
MaxUpdates == 3

\* shutdown signals delivered in a run
MaxSignals == 1

\* getUpdates(offset): the updates Telegram holds from update_id offset on,
\* or the first of them, in the order of their ids
GetUpdates(offset) ==
    {[i \in 1..(k - offset + 1) |-> offset + i - 1] : k \in (offset - 1)..updates}

\* what a request meets: "ok" is status 200 with ok true; "error" any other
\* answer; "timeout" asyncio.TimeoutError; "exception" any other exception
Responses == {"ok", "error", "timeout", "exception"}

\* variant of ForUpdates: last_update_id assigned after handle_update returns
MutForUpdatesIdAfterHandling(last_update_id, batch, raised_at) ==
    [last_update_id |-> IF raised_at > 1 THEN batch[raised_at - 1]
                        ELSE IF raised_at = 1 \/ batch = <<>> THEN last_update_id
                        ELSE batch[Len(batch)],
     handled |-> IF raised_at > 0 THEN SubSeq(batch, 1, raised_at) ELSE batch]

\* The for loop of lines 86-88 over the update_ids of the result;
\* raised_at > 0: handle_update raises for update number raised_at, which
\* ends the loop.  The local last_update_id after the loop, and the updates
\* given to handle_update.
ForUpdates(last_update_id, batch, raised_at) ==
    [last_update_id |-> IF raised_at > 0 THEN batch[raised_at]
                        ELSE IF batch = <<>> THEN last_update_id
                        ELSE batch[Len(batch)],
     handled |-> IF raised_at > 0 THEN SubSeq(batch, 1, raised_at) ELSE batch]

\* line 76: while self.running
HandlerWhileTest(flag) == IF flag THEN "try" ELSE "done"

\* the engine, the driver's lists and the clock left as they are
MonitorIdle ==
    /\ EngineIdle
    /\ CycleIdle
    /\ UNCHANGED <<symbols, time_since_refresh>>

\* CommandHandler() and the call of start, lines 49-57 and 64-68
HandlerConstruct ==
    /\ handler.pc = "__init__"
    /\ pc = "__init__"
    /\ handler' = [NoHandler EXCEPT !.running = TRUE, !.pc = "start"]
    /\ signals' = [signals EXCEPT !.installed = "CommandHandler._shutdown"]
    /\ call' = [op |-> "CommandHandler"]
    /\ MonitorIdle
    /\ UNCHANGED <<running, pc, updates>>

\* lines 70-75: refresh_symbols_cache, which catches what it raises, has
\* returned
HandlerReady ==
    /\ handler.pc = "start"
    /\ pc # "exited"
    /\ handler' = [handler EXCEPT !.pc = "while", !.last_update_id = 0]
    /\ call' = [op |-> "start"]
    /\ MonitorIdle
    /\ UNCHANGED <<running, pc, signals, updates>>

\* line 76
HandlerTest ==
    /\ handler.pc = "while"
    /\ pc # "exited"
    /\ handler' = [handler EXCEPT !.pc = HandlerWhileTest(handler.running)]
    /\ call' = [op |-> "start"]
    /\ MonitorIdle
    /\ UNCHANGED <<running, pc, signals, updates>>

\* One iteration of the loop, lines 77-94: the request, the for loop over
\* its result, and the except clauses, both of which lead back to line 76.
Poll(response, batch, raised_at) ==
    /\ handler.pc = "try"
    /\ pc # "exited"
    /\ response # "ok" => (batch = <<>> /\ raised_at = 0)
    /\ raised_at <= Len(batch)
    /\ \E r \in {ForUpdates(handler.last_update_id, batch, raised_at)} :
           handler' = [handler EXCEPT
                          !.pc = "while",
                          !.last_update_id = r.last_update_id,
                          !.handled = @ \o r.handled,
                          !.seen = @ \cup {batch[i] : i \in 1..Len(batch)},
                          !.refetched = @ \cup ({batch[i] : i \in 1..Len(batch)}
                                                   \cap handler.seen),
                          !.raised = IF raised_at > 0 THEN @ \cup {batch[raised_at]} ELSE @]
    /\ call' = [op |-> "getUpdates", offset |-> handler.last_update_id + 1,
                response |-> response, batch |-> batch, raised_at |-> raised_at]
    /\ MonitorIdle
    /\ UNCHANGED <<running, pc, signals, updates>>

DoPoll ==
    \E response \in Responses : \E batch \in GetUpdates(handler.last_update_id + 1) :
    \E raised_at \in 0..MaxUpdates :
        Poll(response, batch, raised_at)

\* a user's message reaches Telegram
Arrive ==
    /\ updates < MaxUpdates
    /\ updates' = updates + 1
    /\ MonitorIdle
    /\ UNCHANGED <<running, pc, call, handler, signals>>

\* the steps of the start coroutine
HandlerStep ==
    \/ HandlerReady
    \/ HandlerTest
    \/ DoPoll

\* AlertMonitor() in the second task of the gather
StarterConstruct ==
    /\ handler.pc # "__init__"
    /\ DoConstruct

\* SIGINT or SIGTERM is delivered to the process: the handler installed last
\* runs; with none installed the process ends
Signal ==
    /\ signals.delivered < MaxSignals
    /\ pc # "exited"
    /\ handler.pc # "exited"
    /\ ~(pc = "done" /\ handler.pc = "done")
    /\ signals' = [signals EXCEPT
                      !.delivered = @ + 1,
                      !.both = @ \/ (handler.pc # "__init__" /\ pc # "__init__")]
    /\ running' = IF signals.installed = "AlertMonitor._shutdown" THEN FALSE ELSE running
    /\ handler' = IF signals.installed = "CommandHandler._shutdown"
                  THEN [handler EXCEPT !.running = FALSE]
                  ELSE IF signals.installed = "default" THEN [handler EXCEPT !.pc = "exited"]
                  ELSE handler
    /\ pc' = IF signals.installed = "default" THEN "exited" ELSE pc
    /\ call' = [op |-> "signal", handler |-> signals.installed]
    /\ MonitorIdle
    /\ UNCHANGED updates

\* command_handler.py run on its own: the CommandHandler, Telegram and the
\* signals
NextPoll ==
    \/ HandlerConstruct
    \/ HandlerStep
    \/ Arrive
    \/ Signal

PollSpec == LoopInit /\ [][NextPoll]_vars

\* start_bot.main
NextStarter ==
    \/ HandlerConstruct
    \/ HandlerStep
    \/ StarterConstruct
    \/ LoopStep
    \/ Signal

StarterSpec == LoopInit /\ [][NextStarter]_vars

\* the event loop keeps running both tasks: every await of either returns or
\* raises
StarterLiveSpec == StarterSpec /\ WF_vars(LoopStep) /\ WF_vars(HandlerStep)

(***************************************************************************)
(* On-demand historical queries: CommandHandler.handle_update and           *)
(* send_historical_funding.  A string is the sequence of its characters;   *)
(* a time string is given by its fields, the pieces between its colons     *)
(* (what time_str.split(':') returns).  A Python exception is a value: int *)
(* returns <<>> where Python raises ValueError.                            *)
(***************************************************************************)
AsciiDigits == <<"0", "1", "2", "3", "4", "5", "6", "7", "8", "9">>

\* str.isdigit for one character: the ASCII digits, and characters such as
\* the superscript two, which are digits to isdigit and not to int
IsDigitChar(c) == c = "²" \/ \E i \in 1..10 : AsciiDigits[i] = c

DigitValue(c) == (CHOOSE i \in 1..10 : AsciiDigits[i] = c) - 1

RECURSIVE DecimalValue(_)
DecimalValue(s) ==
    IF s = <<>> THEN 0
    ELSE 10 * DecimalValue(SubSeq(s, 1, Len(s) - 1)) + DigitValue(s[Len(s)])

\* int(s) over the characters of the model: <<n>>, or <<>> for ValueError
int(s) ==
    IF s # <<>> /\ \A i \in 1..Len(s) : \E k \in 1..10 : AsciiDigits[k] = s[i]
    THEN <<DecimalValue(s)>>
    ELSE <<>>

\* s[a:b] of Python
Slice(s, a, b) ==
    SubSeq(s, a + 1, IF b > Len(s) THEN Len(s) ELSE b)

IsLeap(year) == year % 4 = 0 /\ (year % 100 # 0 \/ year % 400 = 0)

DaysIn(month, year) ==
    IF month = 2 THEN (IF IsLeap(year) THEN 29 ELSE 28)
    ELSE IF month \in {4, 6, 9, 11} THEN 30
    ELSE 31

\* datetime(year, month, day, hour, minute, second) raises ValueError unless
DatetimeAccepts(year, month, day, hour, minute, second) ==
    /\ month \in 1..12
    /\ day \in 1..DaysIn(month, year)
    /\ hour \in 0..23
    /\ minute \in 0..59
    /\ second \in 0..59

\* the UTC date read at line 271
Today == [year |-> 2026, month |-> 6, day |-> 15]

\* a.date() > b.date()
DateAfter(year, month, day, b) ==
    \/ year > b.year
    \/ year = b.year /\ month > b.month
    \/ year = b.year /\ month = b.month /\ day > b.day

\* lines 283-301: no error message is sent for the time string
TimeAccepted(fields, year, month, day) ==
    /\ Len(fields) >= 2
    /\ int(fields[1]) # <<>>
    /\ int(fields[2]) # <<>>
    /\ Len(fields) > 2 => int(fields[3]) # <<>>
    /\ DatetimeAccepts(year, month, day, int(fields[1])[1], int(fields[2])[1],
                       IF Len(fields) > 2 THEN int(fields[3])[1] ELSE 0)

\* send_historical_funding (lines 256-428): the reply, and whether the
\* history was fetched.  time_str is <<>> for None, else <<fields>>.
send_historical_funding(date_str, time_str) ==
    LET day == int(Slice(date_str, 0, 2))
        month == int(Slice(date_str, 2, 4))
        year == int(Slice(date_str, 4, 6))
    IN  IF day = <<>> \/ month = <<>> \/ year = <<>>
        THEN [reply |-> "Invalid date format", fetched |-> FALSE]
        ELSE IF ~DatetimeAccepts(year[1] + 2000, month[1], day[1], 0, 0, 0)
        THEN [reply |-> "Invalid date format", fetched |-> FALSE]
        ELSE IF DateAfter(year[1] + 2000, month[1], day[1], Today)
        THEN [reply |-> "Cannot fetch historical data for future date", fetched |-> FALSE]
        ELSE IF time_str # <<>> /\ time_str[1] # <<<<>>>>
                  /\ ~TimeAccepted(time_str[1], year[1] + 2000, month[1], day[1])
        THEN [reply |-> "Invalid time format", fetched |-> FALSE]
        ELSE [reply |-> "history", fetched |-> TRUE]

\* handle_update for "/funding SYMBOL date_str [time_str]" (lines 139-156)
handle_update(date_str, time_str) ==
    IF Len(date_str) = 6 /\ \A i \in 1..Len(date_str) : IsDigitChar(date_str[i])
    THEN send_historical_funding(date_str, time_str)
    ELSE [reply |-> "Invalid date format", fetched |-> FALSE]

\* the date and time strings of the queries
DateStrings ==
    {<<"0", "1", "0", "1", "2", "6">>,
     <<"1", "5", "0", "6", "2", "6">>,
     <<"1", "6", "0", "6", "2", "6">>,
     <<"0", "1", "0", "1", "2", "7">>,
     <<"3", "1", "0", "4", "2", "6">>,
     <<"2", "9", "0", "2", "2", "6">>,
     <<"2", "9", "0", "2", "2", "4">>,
     <<"0", "0", "1", "3", "2", "6">>,
     <<"3", "2", "0", "1", "2", "6">>,
     <<"0", "1", "0", "1", "2">>,
     <<"0", "1", "0", "1", "2", "6", "6">>,
     <<"0", "1", "x", "1", "2", "6">>,
     <<"0", "1", "²", "1", "2", "6">>}

TimeStrings ==
    {<<<<"1", "8">>, <<"3", "0">>, <<"0", "0">>>>,
     <<<<"1", "8">>, <<"3", "0">>>>,
     <<<<"1", "8">>>>,
     <<<<"1", "8">>, <<"3", "0">>, <<"0", "0">>, <<"9", "9">>>>,
     <<<<"2", "5">>, <<"0", "0">>, <<"0", "0">>>>,
     <<<<"1", "8">>, <<"6", "1">>, <<"0", "0">>>>,
     <<<<"1", "8">>, <<"3", "0">>, <<"6", "1">>>>,
     <<<<"1", "8">>, <<"3", "0">>, <<"x", "x">>>>,
     <<<<>>, <<"3", "0">>, <<"0", "0">>>>,
     <<<<"a", "b">>, <<"c", "d">>>>}

\* one update taken from getUpdates and handled (lines 86-88)
HandleUpdate(date_str, time_str) ==
    /\ call' = [op |-> "handle_update", date_str |-> date_str, time_str |-> time_str,
                result |-> handle_update(date_str, time_str)]
    /\ LoopIdle
    /\ UNCHANGED <<last_settlement_timestamps, previous_settlement_rates,
                   alerted_predicted_rates, alert_count_this_hour, hour_start, now, alerts,
                   predicted_alerts, denied, store, settled_alerted, sent_this_hour,
                   sent_before_advance, symbols, dispatched>>

DoHandleUpdate ==
    \E date_str \in DateStrings : \E time_str \in {<<>>} \cup {<<t>> : t \in TimeStrings} :
        HandleUpdate(date_str, time_str)

QuerySpec == Init /\ [][DoHandleUpdate]_vars

(***************************************************************************)
(* Properties.  A step whose call' names an operation is a call of it: the *)
(* unprimed variables are the engine before the call, the primed ones the  *)
(* engine and the returned lists after it.                                 *)
(***************************************************************************)
AlertSymbols(list) == {list[i].symbol : i \in 1..Len(list)}

AlertsFor(list, symbol) == SelectSeq(list, LAMBDA a : a.symbol = symbol)

\* a dict's entry for k: <<>> when absent, <<value>> when present
Entry(d, k) == IF k \in DOMAIN d THEN <<d[k]>> ELSE <<>>

OppositeSigns(a, b) == (a > 0 /\ b < 0) \/ (a < 0 /\ b > 0)

\* C1: a settlement, identified by (symbol, settlement timestamp), is alerted
\* at most once: no alert a check_settlements call returns is for a settlement
\* alerted by an earlier call, no two alerts of one call are for the same
\* settlement, and an entry whose timestamp is not later than the stored one
\* gets no alert and leaves its symbol's stored timestamp and rate as they were.
C1_SettlementAlertedAtMostOnce ==
    [][call'.op = "check_settlements" =>
        /\ \A i \in 1..Len(alerts') :
              <<alerts'[i].symbol, alerts'[i].settlementTime>> \notin settled_alerted
        /\ \A i, j \in 1..Len(alerts') :
              (alerts'[i].symbol = alerts'[j].symbol
                 /\ alerts'[i].settlementTime = alerts'[j].settlementTime) => i = j
        /\ \A s \in call'.stale :
              /\ s \notin AlertSymbols(alerts')
              /\ Entry(last_settlement_timestamps', s) = Entry(last_settlement_timestamps, s)
              /\ Entry(previous_settlement_rates', s) = Entry(previous_settlement_rates, s)
      ]_vars

\* C1 case: the settlement of BTCUSDT that was alerted is presented again (or
\* an older one is) and the call returns nothing
C1_Witness ==
    /\ call.op = "check_settlements"
    /\ "BTCUSDT" \in call.stale
    /\ "BTCUSDT" \in DOMAIN last_settlement_timestamps
    /\ <<"BTCUSDT", Get(last_settlement_timestamps, "BTCUSDT", 0)>> \in settled_alerted
    /\ alerts = <<>>

\* C2: the stored last settlement timestamp of a symbol never decreases and,
\* once stored, is never removed, whatever order snapshots arrive in.
C2_TimestampMonotonic ==
    [][\A s \in Symbols :
          /\ Get(last_settlement_timestamps', s, 0) >= Get(last_settlement_timestamps, s, 0)
          /\ s \in DOMAIN last_settlement_timestamps => s \in DOMAIN last_settlement_timestamps'
      ]_vars

\* C2 case: a snapshot carried an entry not later than the stored timestamp
\* of its symbol, itself later than the first, together with a new entry for
\* the other symbol; the first symbol's stored timestamp stayed
C2_Witness ==
    /\ call.op = "check_settlements"
    /\ call.settlements # <<>>
    /\ \E s \in call.stale : Get(last_settlement_timestamps, s, 0) >= 2

\* C3: the first settlement observed for a symbol (no stored rate for it)
\* returns no alert for that symbol, whatever the rate and whether or not the
\* symbol is in FULL_ALERT_SYMBOLS, and afterwards the stored timestamp and
\* rate of the symbol are the observed ones.
C3_FirstSettlementNoAlert ==
    [][call'.op = "check_settlements" =>
        /\ \A s \in call'.stale : s \in DOMAIN previous_settlement_rates
        /\ \A i \in 1..Len(call'.settlements) :
              call'.settlements[i].symbol \notin DOMAIN previous_settlement_rates =>
                 /\ call'.settlements[i].symbol \notin AlertSymbols(alerts')
                 /\ Entry(last_settlement_timestamps', call'.settlements[i].symbol)
                       = <<call'.settlements[i].fundingRateTimestamp>>
                 /\ Entry(previous_settlement_rates', call'.settlements[i].symbol)
                       = <<call'.settlements[i].fundingRate>>
      ]_vars

\* C3 case: both symbols observed for the first time in one call (the stored
\* timestamps are the least one, so no earlier settlement was stored), with
\* nonzero rates, nothing returned, both stored
C3_Witness ==
    /\ call.op = "check_settlements"
    /\ Len(call.settlements) = 2
    /\ \A i \in 1..2 :
          /\ call.settlements[i].fundingRateTimestamp = 1
          /\ call.settlements[i].fundingRate # 0
          /\ last_settlement_timestamps[call.settlements[i].symbol]
                = call.settlements[i].fundingRateTimestamp
          /\ previous_settlement_rates[call.settlements[i].symbol]
                = call.settlements[i].fundingRate
    /\ alerts = <<>>

C6_HourlyCap ==
    /\ sent_this_hour <= MAX_ALERTS_PER_HOUR
    /\ sent_before_advance <= MAX_ALERTS_PER_HOUR
    /\ alert_count_this_hour <= MAX_ALERTS_PER_HOUR
    /\ denied # {} =>
          \/ sent_this_hour = MAX_ALERTS_PER_HOUR
          \/ sent_before_advance = MAX_ALERTS_PER_HOUR

\* C6 case: in one cycle the cap of the ending hour was reached and a
\* settlement alert withheld, then the hour advanced and a predicted alert
\* was returned
C6_Witness ==
    /\ call.op = "_check_funding"
    /\ denied # {}
    /\ alerts = <<>>
    /\ sent_before_advance = MAX_ALERTS_PER_HOUR
    /\ predicted_alerts # <<>>
    /\ sent_this_hour = Len(predicted_alerts)
    /\ alert_count_this_hour = Len(predicted_alerts)

\* C7: every new settlement check_settlements processes leaves the symbol's
\* stored timestamp and rate at the observed values, also when the alert it
\* would have produced was withheld by the rate limiter; a withheld alert is
\* not returned and not counted (the counter grows by the number of alerts
\* returned, from 0 if the hour advanced).
C7_TrackingUpdatedUnconditionally ==
    [][call'.op = "check_settlements" =>
        /\ \A i \in 1..Len(call'.settlements) :
              /\ Entry(last_settlement_timestamps', call'.settlements[i].symbol)
                    = <<call'.settlements[i].fundingRateTimestamp>>
              /\ Entry(previous_settlement_rates', call'.settlements[i].symbol)
                    = <<call'.settlements[i].fundingRate>>
        /\ denied' \cap AlertSymbols(alerts') = {}
        /\ alert_count_this_hour' =
              (IF hour_start' > hour_start THEN 0 ELSE alert_count_this_hour) + Len(alerts')
        /\ denied' # {} => alert_count_this_hour' = alert_count_this_hour
      ]_vars

\* C7 case: BTCUSDT's sign flip was withheld by the limiter and the new
\* timestamp and rate were stored all the same
C7_Witness ==
    /\ call.op = "check_settlements"
    /\ "BTCUSDT" \in denied
    /\ alerts = <<>>
    /\ \E i \in 1..Len(call.settlements) :
          /\ call.settlements[i].symbol = "BTCUSDT"
          /\ "BTCUSDT" \in call.flipped
          /\ last_settlement_timestamps["BTCUSDT"] = call.settlements[i].fundingRateTimestamp
          /\ previous_settlement_rates["BTCUSDT"] = call.settlements[i].fundingRate
    /\ alert_count_this_hour = MAX_ALERTS_PER_HOUR

\* C8: when a poll cycle observes a new settlement for a symbol that holds a
\* predicted-alert cooldown entry, the entry is cleared, so that after the
\* cycle the symbol either holds no entry or was alerted afresh in that
\* cycle; this for every symbol that settles, not only for those whose
\* settlement produced an alert.
C8_SettlementClearsCooldown ==
    [][call'.op = "_check_funding" =>
        \A s \in Symbols :
           (s \in DOMAIN alerted_predicted_rates
              /\ Get(last_settlement_timestamps', s, 0) > Get(last_settlement_timestamps, s, 0)) =>
              (s \in DOMAIN alerted_predicted_rates' => s \in AlertSymbols(predicted_alerts'))
      ]_vars

C10_SignFlipBypassesCooldown ==
    [][call'.op = "check_predicted_rates" =>
        \A i \in 1..Len(call'.ticker_data) :
           (Abs(call'.ticker_data[i].fundingRate) >= PREDICTED_RATE_THRESHOLD
              /\ call'.ticker_data[i].symbol \in DOMAIN alerted_predicted_rates
              /\ OppositeSigns(alerted_predicted_rates[call'.ticker_data[i].symbol],
                               call'.ticker_data[i].fundingRate)
              /\ call'.ticker_data[i].symbol \notin denied') =>
              /\ AlertsFor(predicted_alerts', call'.ticker_data[i].symbol)
                    = <<[symbol |-> call'.ticker_data[i].symbol,
                         fundingRate |-> call'.ticker_data[i].fundingRate,
                         alertType |-> "predicted"]>>
              /\ Entry(alerted_predicted_rates', call'.ticker_data[i].symbol)
                    = <<call'.ticker_data[i].fundingRate>>
      ]_vars

\* C10 case: a symbol whose entry was 3 showed -3 (same magnitude, opposite
\* sign): the alert was returned and the entry is now -3
C10_Witness ==
    /\ call.op = "check_predicted_rates"
    /\ \E i \in 1..Len(call.ticker_data) :
          /\ call.ticker_data[i].fundingRate = -3
          /\ Entry(call.baseline, call.ticker_data[i].symbol) = <<3>>
          /\ call.ticker_data[i].symbol \in AlertSymbols(predicted_alerts)
          /\ Entry(alerted_predicted_rates, call.ticker_data[i].symbol) = <<-3>>

\* the settlement tracking maps a file written by _save_state reads back as
Stored(file) ==
    [timestamps |-> json_load(file[1].timestamps), rates |-> json_load(file[1].rates)]

HoldsState(file) == file # <<>> /\ "corrupt" \notin DOMAIN file[1]

\* C11: when the state file holds what the engine saved of its present
\* maps, a fresh engine constructed over that file (the file readable) holds,
\* for every symbol, the same last settlement timestamp and rate as the
\* saving engine.
C11_LoadAfterSave ==
    [][(call'.op = "restart" /\ call'.readable /\ store = _save_state(Self)) =>
          /\ last_settlement_timestamps' = last_settlement_timestamps
          /\ previous_settlement_rates' = previous_settlement_rates
      ]_vars

\* C11 case: a fresh engine read a file holding both symbols, at different
\* timestamps, and holds them
C11_Witness ==
    /\ call.op = "restart"
    /\ call.readable
    /\ HoldsState(store)
    /\ Len(store[1].timestamps) = 2
    /\ DOMAIN last_settlement_timestamps = Symbols
    /\ DOMAIN previous_settlement_rates = Symbols
    /\ last_settlement_timestamps["BTCUSDT"] # last_settlement_timestamps["ETHUSDT"]
    /\ Stored(store).timestamps = last_settlement_timestamps
    /\ Stored(store).rates = previous_settlement_rates

\* C12: the predicted-alert cooldown entries are persisted: a
\* check_predicted_rates call that records or clears an entry writes the
\* state file, and a fresh engine constructed over the file holds the same
\* cooldown entries as the engine before the restart.
C12_CooldownPersisted ==
    [][/\ (call'.op = "check_predicted_rates"
             /\ alerted_predicted_rates' # alerted_predicted_rates) => store' # store
       /\ (call'.op = "restart" /\ call'.readable) =>
             alerted_predicted_rates' = alerted_predicted_rates
      ]_vars

\* C13: across restarts, with saves that may fail, no settlement alert is
\* returned for a (symbol, settlement timestamp) for which an earlier call,
\* of this or an earlier engine instance, returned one.
C13_AtMostOnceAcrossRestarts ==
    [][\A i \in 1..Len(alerts') :
          <<alerts'[i].symbol, alerts'[i].settlementTime>> \notin settled_alerted
      ]_vars

\* C14: check_settlements writes the state file at the end of a call exactly
\* when the call observed at least one new settlement; a write that succeeds
\* leaves the complete timestamp and rate maps in the file, and a call with
\* no new settlement leaves the file as it was.
C14_SaveIffNewSettlement ==
    [][call'.op = "check_settlements" =>
        /\ (call'.saved # "none") <=> (call'.settlements # <<>>)
        /\ call'.saved = "ok" =>
              /\ HoldsState(store')
              /\ Stored(store').timestamps = last_settlement_timestamps'
              /\ Stored(store').rates = previous_settlement_rates'
        /\ call'.saved = "none" => store' = store
      ]_vars

\* C14 case: a call in which only BTCUSDT settled anew, ETHUSDT's entry being
\* a repeat, wrote a file that holds both symbols
C14_Witness ==
    /\ call.op = "check_settlements"
    /\ call.saved = "ok"
    /\ Len(call.settlements) = 1
    /\ call.settlements[1].symbol = "BTCUSDT"
    /\ "ETHUSDT" \in call.stale
    /\ Len(store[1].timestamps) = 2
    /\ Len(store[1].rates) = 2

Handed == [i \in 1..Len(dispatched) |-> dispatched[i].alert]

\* C18: in every poll cycle the alerts are handed to the notifier one at a
\* time, the settlement alerts of the cycle first, in the order returned,
\* then the predicted alerts of the cycle, in their order; none is merged
\* with another.
C18_SettlementAlertsFirst ==
    call.op = "_check_funding" =>
        /\ Len(dispatched) = Len(alerts) + Len(predicted_alerts)
        /\ \A i \in 1..Len(alerts) : dispatched[i].alert = alerts[i]
        /\ \A i \in 1..Len(predicted_alerts) :
              dispatched[Len(alerts) + i].alert = predicted_alerts[i]

\* C18 case: a cycle with a settlement alert and a predicted alert
C18_Witness ==
    /\ call.op = "_check_funding"
    /\ Len(alerts) = 1
    /\ Len(predicted_alerts) >= 1
    /\ dispatched[1].alert.alertType = "sign_change"
    /\ dispatched[2].alert.alertType = "predicted"

\* C19: the driver dispatches at most 5 predicted alerts in a cycle; when
\* check_predicted_rates returned more than 5, those dispatched are 5 of the
\* returned alerts and none left out has a larger absolute rate than one
\* dispatched; when it returned 5 or fewer, all are dispatched.
C19_TopFivePredicted ==
    (call.op = "_check_funding" /\ "returned" \in DOMAIN call) =>
        /\ Len(Handed) <= 5
        /\ Len(call.returned) <= 5 => Handed = call.returned
        /\ Len(call.returned) > 5 =>
              /\ Len(Handed) = 5
              /\ \A i, j \in 1..5 : Handed[i] = Handed[j] => i = j
              /\ \A i \in 1..5 : \E j \in 1..Len(call.returned) : Handed[i] = call.returned[j]
              /\ \A j \in 1..Len(call.returned) :
                    (\A i \in 1..5 : Handed[i] # call.returned[j]) =>
                        \A i \in 1..5 :
                            Abs(call.returned[j].fundingRate) <= Abs(Handed[i].fundingRate)

\* C19 case: of seven returned alerts the first, with a smaller absolute
\* rate than the last, was left out and the last dispatched
C19_Witness ==
    /\ call.op = "_check_funding"
    /\ "returned" \in DOMAIN call
    /\ Len(call.returned) = 7
    /\ Len(dispatched) = 5
    /\ \A i \in 1..5 : Handed[i] # call.returned[1]
    /\ \E i \in 1..5 : Handed[i] = call.returned[7]

\* C20: a failed delivery does not end the cycle's send loop: every alert of
\* the cycle is handed to the notifier exactly once, the failed ones
\* included; the engine keeps what it recorded for an alert whose delivery
\* failed, and the hourly counter keeps counting it.
C20_FailedDeliveryDoesNotAbort ==
    [][call'.op = "_check_funding" =>
        /\ Handed' = alerts' \o predicted_alerts'
        /\ \A i \in 1..Len(dispatched') :
              ~dispatched'[i].success =>
                 IF dispatched'[i].alert.alertType = "predicted"
                 THEN Entry(alerted_predicted_rates', dispatched'[i].alert.symbol)
                         = <<dispatched'[i].alert.fundingRate>>
                 ELSE /\ Entry(last_settlement_timestamps', dispatched'[i].alert.symbol)
                            = <<dispatched'[i].alert.settlementTime>>
                      /\ Entry(previous_settlement_rates', dispatched'[i].alert.symbol)
                            = <<dispatched'[i].alert.fundingRate>>
        /\ hour_start' = hour_start =>
              alert_count_this_hour' = alert_count_this_hour + Len(dispatched')
      ]_vars

\* C20 case: the delivery of a cycle's settlement alert failed, the predicted
\* alert after it was handed over and delivered, and the engine holds the
\* settlement of the failed alert
C20_Witness ==
    /\ call.op = "_check_funding"
    /\ Len(dispatched) = 2
    /\ ~dispatched[1].success
    /\ dispatched[2].success
    /\ dispatched[1].alert.alertType = "sign_change"
    /\ last_settlement_timestamps[dispatched[1].alert.symbol]
          = dispatched[1].alert.settlementTime
    /\ alert_count_this_hour >= 1

\* the symbols a check call was shown
Shown ==
    IF call.op = "check_settlements"
    THEN {call.settlements[i].symbol : i \in 1..Len(call.settlements)} \cup call.stale
    ELSE IF call.op = "check_predicted_rates"
    THEN {call.ticker_data[i].symbol : i \in 1..Len(call.ticker_data)}
    ELSE {}

\* C17: a symbol that the snapshot of a check_settlements or
\* check_predicted_rates call leaves out gets no alert in that call and keeps
\* its last settlement timestamp, last settlement rate and cooldown entry;
\* and no check call and no refresh of the symbol list removes a symbol's
\* settlement timestamp or rate.
C17_AbsentSymbolUntouched ==
    [][/\ DOMAIN last_settlement_timestamps \subseteq DOMAIN last_settlement_timestamps'
       /\ DOMAIN previous_settlement_rates \subseteq DOMAIN previous_settlement_rates'
       /\ call'.op \in {"check_settlements", "check_predicted_rates", "_refresh_symbols"} =>
             \A symbol \in Symbols \ Shown' :
                /\ symbol \notin AlertSymbols(alerts') \cup AlertSymbols(predicted_alerts')
                /\ Entry(last_settlement_timestamps', symbol)
                      = Entry(last_settlement_timestamps, symbol)
                /\ Entry(previous_settlement_rates', symbol)
                      = Entry(previous_settlement_rates, symbol)
                /\ Entry(alerted_predicted_rates', symbol)
                      = Entry(alerted_predicted_rates, symbol)
      ]_vars

\* C17 case: BTCUSDT, no longer listed, was left out of a ticker snapshot
\* that brought an alert for ETHUSDT, and still has its settlement and its
\* cooldown entry
C17_Witness ==
    /\ call.op = "check_predicted_rates"
    /\ "BTCUSDT" \notin symbols
    /\ "BTCUSDT" \notin Shown
    /\ AlertSymbols(predicted_alerts) = {"ETHUSDT"}
    /\ "BTCUSDT" \in DOMAIN last_settlement_timestamps
    /\ "BTCUSDT" \in DOMAIN alerted_predicted_rates

C28_CounterCountsWindow ==
    [][/\ alert_count_this_hour' \in 0..MAX_ALERTS_PER_HOUR
       /\ hour_start' >= hour_start
       /\ hour_start' = hour_start =>
             alert_count_this_hour' =
                 alert_count_this_hour + Len(alerts') + Len(predicted_alerts')
       /\ hour_start' <= now'
       /\ hour_start' = now' => alert_count_this_hour' = sent_this_hour'
       /\ hour_start' < now' => sent_this_hour' = 0
       /\ (hour_start' # hour_start /\ hour_start' < now') =>
             alert_count_this_hour' = sent_before_advance'
      ]_vars

\* C28 case: a poll cycle during which the hour advanced returned an alert in
\* the old window and one in the new: the counter is that of the new window
C28_Witness ==
    /\ call.op = "_check_funding"
    /\ Len(alerts) + Len(predicted_alerts) = 2
    /\ sent_before_advance = 1
    /\ hour_start = now
    /\ now > 0
    /\ alert_count_this_hour = 1

C21_ExceptionCaughtAtCycleBoundary ==
    [][/\ (pc \in {"try", "fetch", "send"} /\ pc' # pc /\ call'.raised) => pc' = "sleep"
       /\ (pc = "sleep" /\ pc' # pc) => pc' = "while"
       /\ (pc = "while" /\ pc' # pc /\ running) => pc' = "try"
       /\ (pc # "done" /\ pc' = "done") => (pc = "while" /\ ~running)
      ]_vars

\* C21 case: the send loop of the cycle before raised, the loop has slept and
\* has started the next cycle
C21_Witness ==
    /\ pc = "try"
    /\ running
    /\ call.op = "_check_funding"
    /\ call.raised
    /\ call.at = "delivery"
    /\ alerts # <<>>

\* C22: with the running flag cleared, a cycle in progress goes on through
\* its phases to the sleep (every alert of the cycle is still handed to the
\* send loop), the loop test that follows the sleep leaves the loop instead
\* of starting a cycle, no other point of the loop leaves it, and the loop
\* does come to its end.
C22_ShutdownBetweenCycles ==
    /\ [][/\ (pc = "try" /\ pc' # pc) => pc' \in {"fetch", "sleep"}
          /\ (pc = "fetch" /\ pc' # pc) => pc' \in {"send", "sleep"}
          /\ (pc = "send" /\ pc' # pc) =>
                /\ pc' = "sleep"
                /\ ~call'.raised =>
                      Len(dispatched') = Len(alerts) + Len(predicted_alerts)
          /\ (pc = "sleep" /\ pc' # pc) => pc' = "while"
          /\ (pc = "while" /\ pc' # pc /\ ~running) => pc' = "done"
          /\ (running /\ ~running') => pc' = pc
         ]_vars
    /\ (pc \notin {"__init__", "exited"} /\ ~running) ~> (pc = "done")

\* C22 case: the flag was cleared while a cycle had alerts to send; they were
\* sent, and the loop has ended
C22_Witness ==
    /\ pc = "done"
    /\ ~running
    /\ call.op = "_check_funding"
    /\ call.at = "delivery"
    /\ ~call.raised
    /\ call.stopping
    /\ Len(dispatched) >= 1

\* C23: the process exits at startup only when a credential is missing; an
\* empty symbol universe at startup does not end it.
C23_OnlyCredentialsFatal ==
    pc = "exited" => ~call.credentials

\* C30: a cycle runs the symbol refresh when, and only when, a full refresh
\* interval has passed since the last successful refresh; an empty answer
\* leaves the symbol list and the time since the last refresh as they were,
\* so that the refresh is due again in the next cycle; any other answer
\* becomes the symbol list and restarts the interval; and nothing else
\* changes the list or restarts the interval.
C30_RefreshCadence ==
    [][/\ (pc = "try" /\ pc' # pc) =>
             (call'.op = "_refresh_symbols" <=> time_since_refresh >= 1)
       /\ (pc = "try" /\ pc' # pc /\ call'.op = "_refresh_symbols" /\ ~call'.raised) =>
             IF call'.new_data = {}
             THEN symbols' = symbols /\ time_since_refresh' = time_since_refresh
             ELSE symbols' = call'.new_data /\ time_since_refresh' = 0
       /\ (pc # "__init__" /\ (symbols' # symbols \/ time_since_refresh' < time_since_refresh)) =>
             (pc = "try" /\ call'.op = "_refresh_symbols" /\ call'.new_data # {})
      ]_vars

\* C30 case: a refresh that was due got an empty answer: the list is the one
\* from before, the refresh is still due, and the cycle goes on to its fetch
C30_Witness ==
    /\ pc = "fetch"
    /\ call.op = "_refresh_symbols"
    /\ ~call.raised
    /\ call.new_data = {}
    /\ symbols = call.before
    /\ symbols = {"BTCUSDT"}
    /\ time_since_refresh >= 1

\* C24: whatever the interleaving of the poll task and the query task, the
\* engine's tracking maps, cooldown entries, counter and window change only
\* in the detection step of a poll cycle (the check_settlements, clear and
\* check_predicted_rates calls of one cycle, made without a suspension
\* between them), no step of the query task falls inside it, and every
\* command handled leaves the engine and the state file as they were.
C24_EngineOwnedByPollTask ==
    [][/\ Self' # Self => (pc = "fetch" /\ pc' # pc /\ call'.op = "_check_funding")
                            \/ pc = "__init__"
       /\ store' # store => (pc = "fetch" /\ pc' # pc /\ call'.op = "_check_funding")
       /\ (call'.op = "handle_command" /\ pc' = pc /\ call' # call) =>
             /\ Self' = Self
             /\ store' = store
             /\ pc \in {"fetch", "send", "sleep", "done"}
      ]_vars

\* C24 case: /status was handled while the poll cycle stood in its send loop
\* with a predicted alert counted by the engine
C24_Witness ==
    /\ call.op = "handle_command"
    /\ call.command = "/status"
    /\ pc = "send"
    /\ alert_count_this_hour >= 1
    /\ alerted_predicted_rates # EmptyDict
    /\ predicted_alerts # <<>>

\* a date string in the form DDMMYY: six ASCII digits that name a day of the
\* calendar not after today
WellFormedDate(date_str) ==
    /\ Len(date_str) = 6
    /\ \A i \in 1..6 : \E k \in 1..10 : AsciiDigits[k] = date_str[i]
    /\ DecimalValue(SubSeq(date_str, 3, 4)) \in 1..12
    /\ DecimalValue(SubSeq(date_str, 1, 2)) \in
           1..DaysIn(DecimalValue(SubSeq(date_str, 3, 4)),
                     2000 + DecimalValue(SubSeq(date_str, 5, 6)))
    /\ ~DateAfter(2000 + DecimalValue(SubSeq(date_str, 5, 6)),
                  DecimalValue(SubSeq(date_str, 3, 4)),
                  DecimalValue(SubSeq(date_str, 1, 2)), Today)

\* a time string in the form HH:MM:SS, the seconds optional: three or two
\* fields of ASCII digits, an hour below 24, minutes and seconds below 60
WellFormedTime(fields) ==
    /\ Len(fields) \in {2, 3}
    /\ \A f \in 1..Len(fields) : /\ fields[f] # <<>>
                                 /\ \A i \in 1..Len(fields[f]) :
                                       \E k \in 1..10 : AsciiDigits[k] = fields[f][i]
    /\ DecimalValue(fields[1]) < 24
    /\ DecimalValue(fields[2]) < 60
    /\ Len(fields) = 3 => DecimalValue(fields[3]) < 60

\* C25: a historical query whose date is not a DDMMYY date of the past or of
\* today, or whose time is not an HH:MM:SS time (HH:MM taken as well formed
\* too), is answered with an error message and without a fetch of the
\* history.
C25_MalformedQueryRejected ==
    (call.op = "handle_update"
        /\ (~WellFormedDate(call.date_str)
              \/ (call.time_str # <<>> /\ ~WellFormedTime(call.time_str[1])))) =>
       /\ ~call.result.fetched
       /\ call.result.reply # "history"


(***************************************************************************)
(* C31: check_settlements is idempotent on a repeated snapshot.  A call    *)
(* given the settlements map of the call before it returns no alert,       *)
(* leaves the timestamps, the rates, the cooldown entries, the hourly      *)
(* counter and the window start as they were, and does not write the       *)
(* state file.  The same holds of a repetition of the snapshot in any      *)
(* later clock hour.                                                       *)
(***************************************************************************)
C31_RepeatedSnapshotIdempotent ==
    /\ [][(/\ call.op = "check_settlements"
            /\ call'.op = "check_settlements"
            /\ call'.settlements = call.settlements)
           => /\ alerts' = <<>>
              /\ call'.saved = "none"
              /\ store' = store
              /\ UNCHANGED <<last_settlement_timestamps, previous_settlement_rates,
                             alerted_predicted_rates, alert_count_this_hour, hour_start,
                             settled_alerted>>]_vars
    /\ [](call.op = "check_settlements"
            => \A h \in Hours :
                  \E r \in {check_settlements(Self, call.settlements,
                                               [i \in 1..Len(call.settlements) |-> h])} :
                      /\ r.alerts = <<>>
                      /\ r.new_settlements = 0
                      /\ r.self = Self)

\* the snapshot that flipped BTCUSDT's sign and returned an alert has been
\* given again, and the second call returned nothing and wrote nothing
C31_Witness ==
    /\ call.op = "check_settlements"
    /\ call.saved = "none"
    /\ alerts = <<>>
    /\ Len(call.settlements) = 2
    /\ \E i \in 1..2 :
          /\ <<call.settlements[i].symbol, call.settlements[i].fundingRateTimestamp>>
                \in settled_alerted
          /\ last_settlement_timestamps[call.settlements[i].symbol]
                = call.settlements[i].fundingRateTimestamp
          /\ previous_settlement_rates[call.settlements[i].symbol]
                = call.settlements[i].fundingRate
    /\ alert_count_this_hour = 1
    /\ store # <<>>


(***************************************************************************)
(* C32: every predicted alert that check_predicted_rates returned in a     *)
(* poll cycle, which it has counted against the hourly limit and whose     *)
(* rate it has recorded as the symbol's cooldown baseline, is handed to    *)
(* the notifier in that cycle.                                             *)
(***************************************************************************)
C32_RecordedAlertsDispatched ==
    (call.op = "_check_funding" /\ "returned" \in DOMAIN call) =>
        \A i \in 1..Len(call.returned) :
            \E j \in 1..Len(dispatched) : dispatched[j].alert = call.returned[i]


(***************************************************************************)
(* C33: in the unified starter, once the CommandHandler and the            *)
(* AlertMonitor have both registered their signal handlers, a shutdown     *)
(* signal leads to both running flags being false and both tasks of the    *)
(* gather having returned.                                                 *)
(***************************************************************************)
C33_SignalStopsBothLoops ==
    (signals.delivered > 0 /\ signals.both)
        ~> (/\ ~running
            /\ ~handler.running
            /\ pc = "done"
            /\ handler.pc = "done")


(***************************************************************************)
(* C34: a poll cycle whose ticker fetch or settlement fetch returned       *)
(* nothing does nothing to the engine: it calls neither check_settlements  *)
(* nor check_predicted_rates, hands no alert to the notifier, and leaves   *)
(* the timestamps, the rates, the cooldown entries, the hourly counter,    *)
(* the window start and the state file as they were; so the tickers        *)
(* fetched ahead of an empty settlement result are not examined.           *)
(***************************************************************************)
C34_EmptyFetchIsNoOp ==
    [][(/\ call'.op = "_check_funding"
        /\ \/ ~call'.fetched[1]
           \/ ~call'.fetched[2])
       => /\ call'.calls = <<>>
          /\ alerts' = <<>>
          /\ predicted_alerts' = <<>>
          /\ dispatched' = <<>>
          /\ store' = store
          /\ UNCHANGED <<last_settlement_timestamps, previous_settlement_rates,
                         alerted_predicted_rates, alert_count_this_hour, hour_start,
                         settled_alerted>>]_vars

\* a cycle has returned at the empty settlement result with a ticker in
\* hand whose extreme rate the engine would have alerted: no cooldown entry
\* for the symbol, the hourly count below the cap
C34_Witness ==
    /\ call.op = "_check_funding"
    /\ call.fetched = <<TRUE, FALSE>>
    /\ \E i \in 1..Len(call.ticker_data) :
          /\ _is_rate_extreme(call.ticker_data[i].fundingRate, PREDICTED_RATE_THRESHOLD)
          /\ call.ticker_data[i].symbol \notin DOMAIN alerted_predicted_rates
    /\ alert_count_this_hour < MAX_ALERTS_PER_HOUR
    /\ hour_start = now
    /\ last_settlement_timestamps # EmptyDict
    /\ predicted_alerts = <<>>
    /\ dispatched = <<>>


(***************************************************************************)
(* C35: the cooldown baseline of a symbol is the rate of the predicted     *)
(* alert most recently returned for it.  In a check_predicted_rates call   *)
(* an extreme rate that is alerted becomes the symbol's baseline, and an   *)
(* extreme rate that is suppressed, by the cooldown or by the rate         *)
(* limiter, leaves the symbol's entry as it was, present or absent; a      *)
(* symbol the snapshot leaves out keeps its entry.  Every cooldown entry   *)
(* holds a rate with abs(rate) >= PREDICTED_RATE_THRESHOLD.                *)
(***************************************************************************)
C35_BaselineIsLastAlertedRate ==
    /\ [](\A symbol \in DOMAIN alerted_predicted_rates :
            Abs(alerted_predicted_rates[symbol]) >= PREDICTED_RATE_THRESHOLD)
    /\ [][call'.op = "check_predicted_rates" =>
            /\ \A i \in 1..Len(call'.ticker_data) :
                  Abs(call'.ticker_data[i].fundingRate) >= PREDICTED_RATE_THRESHOLD =>
                      IF call'.ticker_data[i].symbol \in AlertSymbols(predicted_alerts')
                      THEN /\ Entry(alerted_predicted_rates', call'.ticker_data[i].symbol)
                                = <<call'.ticker_data[i].fundingRate>>
                           /\ \E j \in 1..Len(predicted_alerts') :
                                 /\ predicted_alerts'[j].symbol = call'.ticker_data[i].symbol
                                 /\ predicted_alerts'[j].fundingRate
                                       = call'.ticker_data[i].fundingRate
                      ELSE Entry(alerted_predicted_rates', call'.ticker_data[i].symbol)
                             = Entry(alerted_predicted_rates, call'.ticker_data[i].symbol)
            /\ \A symbol \in Symbols :
                  (\A i \in 1..Len(call'.ticker_data) : call'.ticker_data[i].symbol # symbol)
                      => Entry(alerted_predicted_rates', symbol)
                           = Entry(alerted_predicted_rates, symbol)]_vars

\* an extreme rate other than the baseline was shown for a symbol and
\* suppressed by the cooldown, not by the limiter: the entry still holds the
\* alerted rate
C35_Witness ==
    /\ call.op = "check_predicted_rates"
    /\ \E i \in 1..Len(call.ticker_data) :
          /\ Abs(call.ticker_data[i].fundingRate) >= PREDICTED_RATE_THRESHOLD
          /\ call.ticker_data[i].symbol \notin AlertSymbols(predicted_alerts)
          /\ call.ticker_data[i].symbol \notin denied
          /\ call.ticker_data[i].symbol \in DOMAIN call.baseline
          /\ call.baseline[call.ticker_data[i].symbol] # call.ticker_data[i].fundingRate
          /\ alerted_predicted_rates[call.ticker_data[i].symbol]
                = call.baseline[call.ticker_data[i].symbol]


(***************************************************************************)
(* C36: from an engine constructed with no state file, through             *)
(* check_settlements calls and restarts of the process over the state      *)
(* file the engine wrote, the symbols with a stored                        *)
(* last_settlement_timestamps entry are the symbols with a stored          *)
(* previous_settlement_rates entry, and a check_settlements call removes   *)
(* no symbol from that set.                                                *)
(***************************************************************************)
C36_TimestampsAndRatesSameSymbols ==
    /\ [](DOMAIN last_settlement_timestamps = DOMAIN previous_settlement_rates)
    /\ [][call'.op = "check_settlements" =>
            /\ DOMAIN last_settlement_timestamps \subseteq DOMAIN last_settlement_timestamps'
            /\ DOMAIN previous_settlement_rates \subseteq DOMAIN previous_settlement_rates'
            /\ DOMAIN last_settlement_timestamps'
                  = DOMAIN last_settlement_timestamps
                      \cup {call'.settlements[i].symbol : i \in 1..Len(call'.settlements)}]_vars

\* a call stored the first settlement of ETHUSDT next to BTCUSDT, stored
\* before: the set grew, and both dicts hold both symbols
C36_Witness ==
    /\ call.op = "check_settlements"
    /\ "BTCUSDT" \in call.stale
    /\ \E i \in 1..Len(call.settlements) :
          /\ call.settlements[i].symbol = "ETHUSDT"
          /\ call.settlements[i].fundingRateTimestamp = 1
    /\ DOMAIN last_settlement_timestamps = Symbols
    /\ DOMAIN previous_settlement_rates = Symbols
    /\ store # <<>>


(***************************************************************************)
(* C37: a settlement is compared with the stored settlement immediately    *)
(* before it and with no earlier one.  Every new settlement, zero          *)
(* included, becomes the stored rate; a sign_change alert is returned only *)
(* when the stored rate and the new rate have opposite signs; so for a     *)
(* symbol of FULL_ALERT_SYMBOLS that settles at a positive rate, then at   *)
(* zero, then at a negative rate (or negative, zero, positive), neither    *)
(* the zero settlement nor the one after it returns an alert.              *)
(***************************************************************************)
C37_ZeroSettlementReplacesBaseline ==
    [][call'.op = "check_settlements" =>
        \A i \in 1..Len(call'.settlements) :
            /\ previous_settlement_rates'[call'.settlements[i].symbol]
                  = call'.settlements[i].fundingRate
            /\ AlertsFor(alerts', call'.settlements[i].symbol) # <<>> =>
                  /\ call'.settlements[i].symbol \in DOMAIN previous_settlement_rates
                  /\ OppositeSigns(previous_settlement_rates[call'.settlements[i].symbol],
                                   call'.settlements[i].fundingRate)
            /\ \E n \in {Len(call'.settled[call'.settlements[i].symbol])} :
                  /\ n >= 1
                  /\ call'.settled[call'.settlements[i].symbol][n]
                        = call'.settlements[i].fundingRate
                  /\ (n >= 2 /\ 0 \in {call'.settled[call'.settlements[i].symbol][n - 1],
                                         call'.settled[call'.settlements[i].symbol][n]})
                        => AlertsFor(alerts', call'.settlements[i].symbol) = <<>>
    ]_vars

\* BTCUSDT settled at a positive rate, then at zero, now at a negative
\* rate: three settlements stored, none alerted, the limiter never asked
C37_Witness ==
    /\ call.op = "check_settlements"
    /\ call.settled["BTCUSDT"] = <<2, 0, -1>>
    /\ \E i \in 1..Len(call.settlements) :
          /\ call.settlements[i].symbol = "BTCUSDT"
          /\ call.settlements[i].fundingRate = -1
    /\ previous_settlement_rates["BTCUSDT"] = -1
    /\ alerts = <<>>
    /\ denied = {}
    /\ settled_alerted = {}
    /\ alert_count_this_hour = 0


(***************************************************************************)
(* C38: the command poll loop gives each update to the handler at most     *)
(* once and in the order received.  last_update_id never decreases; every  *)
(* request asks for offset last_update_id + 1; the updates given to the    *)
(* handler so far are exactly those with an id up to last_update_id, each  *)
(* once, in increasing order, so an update whose handling raised is not    *)
(* given again; and the updates of a result that follow the one whose      *)
(* handling raised have not been handled, have ids above last_update_id    *)
(* and are still held by Telegram, so that the following request asks for  *)
(* them again and a following poll handles them in order.                  *)
(***************************************************************************)
C38_UpdatesHandledOnceInOrder ==
    /\ [](/\ Len(handler.handled) = handler.last_update_id
          /\ \A i \in 1..Len(handler.handled) : handler.handled[i] = i
          /\ handler.raised \subseteq 1..handler.last_update_id
          /\ handler.seen \subseteq 1..updates)
    /\ [][/\ handler'.last_update_id >= handler.last_update_id
          /\ (call'.op = "getUpdates" /\ handler.pc = "try") =>
                /\ call'.offset = handler.last_update_id + 1
                /\ \A i \in 1..Len(call'.batch) : call'.batch[i] = call'.offset + i - 1
                /\ \E n \in {IF call'.raised_at > 0 THEN call'.raised_at
                               ELSE Len(call'.batch)} :
                      /\ handler'.handled = handler.handled \o SubSeq(call'.batch, 1, n)
                      /\ \A i \in (n + 1)..Len(call'.batch) :
                            /\ call'.batch[i] > handler'.last_update_id
                            /\ call'.batch[i] <= updates'
         ]_vars

\* the handling of update 1 raised while the result also carried update 2;
\* update 2 came again in the result of a following request, which asked
\* for offset 2, and was handled there; update 1 was handled once
C38_Witness ==
    /\ call.op = "getUpdates"
    /\ call.offset = 2
    /\ call.batch # <<>>
    /\ call.raised_at = 0
    /\ 1 \in handler.raised
    /\ 2 \in handler.refetched
    /\ 1 \notin handler.refetched
    /\ handler.handled = [i \in 1..handler.last_update_id |-> i]
    /\ handler.last_update_id >= 2

====
